---- MODULE Spec2Model ----
(***************************************************************************)
(* Workana job scraper: the record store (storage/database.py), the crawl  *)
(* session (scrapers/workana_scraper.py), the crawl cycle (main.py) and    *)
(* the listing extractor (parsers/job_parser.py) with the text normalizers *)
(* (parsers/date_parser.py, parsers/job_parser.py).                        *)
(*                                                                         *)
(* Python values:                                                          *)
(*   a string is a sequence of one-character strings ("" is << >>);        *)
(*   an optional value is a sequence of length <= 1 (None is << >>,        *)
(*   the value v is <<v>>);                                                *)
(*   a DATETIME of the store is a natural number read from the clock.      *)
(***************************************************************************)
EXTENDS Integers, Sequences, FiniteSets, TLC

VARIABLES
    \* ---- storage/database.py: the SQLite file (survives a restart)
    jobs,              \* table jobs: a set of rows
    scrape_history,    \* table scrape_history: rows in AUTOINCREMENT order
    clock,             \* datetime.now()
    ret,               \* the last store call: [op, id, val]
    markSentLog,       \* per id, slack_sent_at after each mark_job_sent_to_slack that returned True
    upserted,          \* ids save_job was called with so far
    \* ---- main.py: run_scrape's locals and the collaborators
    pc,                \* position in main()/run_scrape
    slack_notifier,    \* the notifier is configured
    sheets_exporter,   \* the exporter is configured and available
    existing_job_ids,  \* run_scrape's snapshot of the known keys
    scraped_jobs,      \* scraper.scrape(...)'s result
    new_jobs,          \* jobs save_job reported new in this cycle
    updated_jobs,
    unsent_jobs,
    unexported_jobs,
    exported_count,
    idx,               \* index of the running for loop
    success,           \* send_single_job's result, until it is acted on
    slackLog,          \* per id, the send_single_job calls: [ok, flagged]
    sheetRows,         \* ids of the rows the spreadsheet holds, in order
    \* ---- scrapers/workana_scraper.py: one session of scrape()
    spc,               \* position in scrape()
    STOP_ON_KNOWN_JOB, \* config/settings.py
    known,             \* scrape's existing_job_ids argument
    max_pages,         \* scrape's max_pages argument (0: None)
    pagination,        \* what get_total_pages() returned
    total_pages,
    page,
    elems,             \* number of job elements of the loaded page
    elemIdx,           \* scrape_page's loop index i (1-based)
    jobsOfPage,        \* scrape_page's local list jobs
    all_jobs,
    should_stop,
    processed,         \* the job elements handled so far: [page, kind, job]
    loads,             \* load_page calls so far: [page, ok]
    delays,            \* time.sleep(delay) calls so far: the page slept before
    \* ---- parsers/job_parser.py: parse_job_element_from_html on one listing
    xpc,               \* position: the markup is given / job_data is returned
    client_section,    \* soup.select_one('div.project-author'): its anchors, or None
    client_country,    \* job_data['client_country'], when the client block is taken alone
    title_elem,        \* soup.select_one(SELECTORS['job_title']): [text, href], or None
    date_elem,         \* soup.select_one(SELECTORS['job_date']): its text, or None
    budget_elem,       \* soup.select_one(SELECTORS['job_budget']): its text, or None
    job_dict,          \* job_data, the dict parse_job_element_from_html returns
    \* ---- parsers/date_parser.py, parsers/job_parser.py: one call of a normalizer
    npc,               \* the function called, then that it returned
    date_text,         \* parse_relative_date's argument
    budget_text,       \* parse_budget's argument
    datetime_now,      \* datetime.now()
    normalized         \* how the call ended: [raised, value]

storeVars == <<jobs, scrape_history, clock, ret, markSentLog, upserted>>
cycleVars == <<pc, slack_notifier, sheets_exporter, existing_job_ids, scraped_jobs,
               new_jobs, updated_jobs, unsent_jobs, unexported_jobs, exported_count,
               idx, success, slackLog, sheetRows>>
scrapeVars == <<spc, STOP_ON_KNOWN_JOB, known, max_pages, pagination, total_pages, page, elems,
                elemIdx, jobsOfPage, all_jobs, should_stop, processed, loads, delays>>
extractVars == <<xpc, client_section, client_country, title_elem, date_elem, budget_elem, job_dict>>
normVars == <<npc, date_text, budget_text, datetime_now, normalized>>
vars == <<storeVars, cycleVars, scrapeVars, extractVars, normVars>>

\* ------------------------------------------------------------------ bounds
MaxClock == 1        \* the clock's last reading
MaxHistory == 1      \* rows of scrape_history
MaxListings == 3     \* job elements a session meets, over all its pages
MaxTotalPages == 2   \* the largest page number the pagination control shows
MaxScraped == 2      \* records one scrape() hands to run_scrape
JobsPerPage == 20    \* main.py: len(scraped_jobs) // 20

\* ------------------------------------------------------------------ values
None == << >>
Some(v) == <<v>>
Truthy(o) == o # None /\ o[1] # << >>        \* Python truth of an optional string
OrEmpty(o) == IF Truthy(o) THEN o[1] ELSE << >>    \* o or ''

Ids == {<<"a">>, <<"b">>}
ClientNames == {None, Some(<< >>), Some(<<"X">>), Some(<<"Y">>)}
Titles == {"t1", "t2"}

\* A job dict as the store reads it: job_data.get('id'), .get('client_name'), .get('title')
JobData(id, client_name, title) == [id |-> id, client_name |-> client_name, title |-> title]
\* the records the store is called with: one id in every variant, the other in one
StoreJobs ==
    {JobData(Some(<<"a">>), c, t) : c \in {None, Some(<<"X">>)}, t \in Titles}
        \cup {JobData(Some(<<"b">>), None, "t1")}

JobKey_IdOnly(job_id, client_name) == job_id \o <<"|">>
\* f"{job_id}|{client_name or ''}"
JobKey(job_id, client_name) == job_id \o <<"|">> \o OrEmpty(client_name)

\* ------------------------------------------------------------------ store
RowsOf(tbl, job_id) == {r \in tbl : r.id = job_id}
Row(tbl, job_id) == CHOOSE r \in tbl : r.id = job_id

JobExists_Never(tbl, job_id) == FALSE
\* job_exists: SELECT id FROM jobs WHERE id = ?
JobExists(tbl, job_id) == RowsOf(tbl, job_id) # {}

\* get_existing_job_ids: SELECT id, client_name FROM jobs
GetExistingJobIds(tbl) == {JobKey(r.id, r.client_name) : r \in tbl}

InsertRow_Sent(job, now) ==
    [id |-> job.id[1], client_name |-> job.client_name, title |-> job.title,
     scraped_at |-> now, first_seen_at |-> now, last_seen_at |-> now,
     sent_to_slack |-> 1, slack_sent_at |-> Some(now),
     exported_to_sheets |-> 0, sheets_exported_at |-> None]
\* save_job, is_new: the INSERT's VALUES
InsertRow(job, now) ==
    [id |-> job.id[1], client_name |-> job.client_name, title |-> job.title,
     scraped_at |-> now, first_seen_at |-> now, last_seen_at |-> now,
     sent_to_slack |-> 0, slack_sent_at |-> None,
     exported_to_sheets |-> 0, sheets_exported_at |-> None]

UpdateRow_Replace(r, job, now) == InsertRow(job, r.first_seen_at)
UpdateRow_FirstSeen(r, job, now) ==
    [r EXCEPT !.title = job.title, !.scraped_at = now, !.last_seen_at = now,
              !.first_seen_at = now]
UpdateRow_StaleScraped(r, job, now) ==
    [r EXCEPT !.title = job.title, !.last_seen_at = now]
\* save_job, not is_new: the UPDATE's SET
UpdateRow(r, job, now) ==
    [r EXCEPT !.title = job.title, !.scraped_at = now, !.last_seen_at = now]

\* save_job: is_new = not self.job_exists(job_data['id'])
SaveJobIsNew(tbl, job) == ~JobExists(tbl, job.id[1])
\* save_job's table after the call
SaveJobTable(tbl, job, now) ==
    IF SaveJobIsNew(tbl, job)
    THEN tbl \cup {InsertRow(job, now)}
    ELSE {IF r.id = job.id[1] THEN UpdateRow(r, job, now) ELSE r : r \in tbl}

MarkSentWhere_AnyFlag(r, job_id) == r.id = job_id
\* mark_job_sent_to_slack: WHERE id = ? AND sent_to_slack = 0
MarkSentWhere(r, job_id) == r.id = job_id /\ r.sent_to_slack = 0

MarkSentSet_Both(r, now) ==
    [r EXCEPT !.sent_to_slack = 1, !.slack_sent_at = Some(now),
              !.exported_to_sheets = 1, !.sheets_exported_at = Some(now)]
\* mark_job_sent_to_slack: SET sent_to_slack = 1, slack_sent_at = ?
MarkSentSet(r, now) == [r EXCEPT !.sent_to_slack = 1, !.slack_sent_at = Some(now)]

MarkSentTable_Upsert(tbl, job_id, now) ==
    IF RowsOf(tbl, job_id) = {}
    THEN tbl \cup {InsertRow_Sent(JobData(Some(job_id), None, "t1"), now)}
    ELSE {IF MarkSentWhere(r, job_id) THEN MarkSentSet(r, now) ELSE r : r \in tbl}
\* mark_job_sent_to_slack: the UPDATE
MarkSentTable(tbl, job_id, now) ==
    {IF MarkSentWhere(r, job_id) THEN MarkSentSet(r, now) ELSE r : r \in tbl}
\* cursor.rowcount > 0
MarkSentResult(tbl, job_id) == {r \in tbl : MarkSentWhere(r, job_id)} # {}

\* mark_job_exported_to_sheets: WHERE id = ? AND exported_to_sheets = 0
MarkExportedWhere(r, job_id) == r.id = job_id /\ r.exported_to_sheets = 0
\* mark_job_exported_to_sheets: SET exported_to_sheets = 1, sheets_exported_at = ?
MarkExportedSet(r, now) ==
    [r EXCEPT !.exported_to_sheets = 1, !.sheets_exported_at = Some(now)]
\* mark_job_exported_to_sheets: the UPDATE
MarkExportedTable(tbl, job_id, now) ==
    {IF MarkExportedWhere(r, job_id) THEN MarkExportedSet(r, now) ELSE r : r \in tbl}
\* cursor.rowcount > 0
MarkExportedResult(tbl, job_id) == {r \in tbl : MarkExportedWhere(r, job_id)} # {}

\* is_job_sent_to_slack: the row's flag, False when there is no row
IsJobSentToSlack(tbl, job_id) ==
    IF RowsOf(tbl, job_id) # {} THEN Row(tbl, job_id).sent_to_slack # 0 ELSE FALSE
\* is_job_exported_to_sheets
IsJobExportedToSheets(tbl, job_id) ==
    IF RowsOf(tbl, job_id) # {} THEN Row(tbl, job_id).exported_to_sheets # 0 ELSE FALSE

Call(op, id, val) == [op |-> op, id |-> id, val |-> val]

\* slack_sent_at of job_id's row, None when there is no row
SentAt(tbl, job_id) == IF RowsOf(tbl, job_id) # {} THEN Row(tbl, job_id).slack_sent_at ELSE None
ExportedAt(tbl, job_id) ==
    IF RowsOf(tbl, job_id) # {} THEN Row(tbl, job_id).sheets_exported_at ELSE None

\* ---- the store's operations as steps (shared by every specification)
\* datetime.now() advances
Tick ==
    /\ clock < MaxClock
    /\ clock' = clock + 1
    /\ UNCHANGED <<jobs, scrape_history, ret, markSentLog, upserted>>

\* db.save_job(job)
DoSaveJob(job) ==
    /\ jobs' = SaveJobTable(jobs, job, clock)
    /\ ret' = Call("save_job", job.id[1], SaveJobIsNew(jobs, job))
    /\ upserted' = upserted \cup {job.id[1]}
    /\ UNCHANGED <<scrape_history, clock, markSentLog>>

\* db.mark_job_sent_to_slack(job_id)
DoMarkSent(job_id) ==
    /\ jobs' = MarkSentTable(jobs, job_id, clock)
    /\ ret' = Call("mark_sent", job_id, MarkSentResult(jobs, job_id))
    /\ markSentLog' = [markSentLog EXCEPT ![job_id] =
          IF MarkSentResult(jobs, job_id) /\ Len(@) < 2
          THEN Append(@, SentAt(jobs', job_id)) ELSE @]
    /\ UNCHANGED <<scrape_history, clock, upserted>>

\* db.mark_job_exported_to_sheets(job_id)
DoMarkExported(job_id) ==
    /\ jobs' = MarkExportedTable(jobs, job_id, clock)
    /\ ret' = Call("mark_exported", job_id, MarkExportedResult(jobs, job_id))
    /\ UNCHANGED <<scrape_history, clock, markSentLog, upserted>>

\* db.save_scrape_history(jobs_found, new_jobs_count, pages_scraped, ...)
DoSaveScrapeHistory(jobs_found, new_jobs_count, pages_scraped) ==
    /\ Len(scrape_history) < MaxHistory
    /\ scrape_history' = Append(scrape_history,
          [jobs_found |-> jobs_found, new_jobs_count |-> new_jobs_count,
           pages_scraped |-> pages_scraped])
    /\ ret' = Call("save_scrape_history", << >>, FALSE)
    /\ UNCHANGED <<jobs, clock, markSentLog, upserted>>

\* ---- initial values
StoreInit ==
    /\ jobs = {}
    /\ scrape_history = << >>
    /\ clock = 0
    /\ ret = Call("none", << >>, FALSE)
    /\ markSentLog = [i \in Ids |-> << >>]
    /\ upserted = {}

CycleIdle ==
    /\ pc = "off"
    /\ slack_notifier = FALSE
    /\ sheets_exporter = FALSE
    /\ existing_job_ids = {}
    /\ scraped_jobs = << >>
    /\ new_jobs = << >>
    /\ updated_jobs = 0
    /\ unsent_jobs = << >>
    /\ unexported_jobs = << >>
    /\ exported_count = 0
    /\ idx = 0
    /\ success = FALSE
    /\ slackLog = [i \in Ids |-> << >>]
    /\ sheetRows = << >>

ScrapeIdle ==
    /\ spc = "off"
    /\ STOP_ON_KNOWN_JOB = FALSE
    /\ known = {}
    /\ max_pages = 0
    /\ pagination = 0
    /\ total_pages = 0
    /\ page = 0
    /\ elems = 0
    /\ elemIdx = 0
    /\ jobsOfPage = << >>
    /\ all_jobs = << >>
    /\ should_stop = FALSE
    /\ processed = << >>
    /\ loads = << >>
    /\ delays = << >>

ExtractIdle ==
    /\ xpc = "off"
    /\ client_section = << >>
    /\ client_country = << >>
    /\ title_elem = << >>
    /\ date_elem = << >>
    /\ budget_elem = << >>
    /\ job_dict = << >>

NormalizeIdle ==
    /\ npc = "off"
    /\ date_text = << >>
    /\ budget_text = << >>
    /\ datetime_now = [days |-> 1, seconds |-> 0]
    /\ normalized = [raised |-> FALSE, value |-> << >>]

\* ---- the record store under any sequence of calls
StoreSaveJob == \E job \in StoreJobs : DoSaveJob(job) /\ UNCHANGED <<cycleVars, scrapeVars, extractVars, normVars>>
StoreMarkSent == \E i \in Ids : DoMarkSent(i) /\ UNCHANGED <<cycleVars, scrapeVars, extractVars, normVars>>
StoreMarkExported == \E i \in Ids : DoMarkExported(i) /\ UNCHANGED <<cycleVars, scrapeVars, extractVars, normVars>>
StoreRecordSession ==
    DoSaveScrapeHistory(1, 1, 0) /\ UNCHANGED <<cycleVars, scrapeVars, extractVars, normVars>>
StoreTick == Tick /\ UNCHANGED <<cycleVars, scrapeVars, extractVars, normVars>>

StoreSpecInit == StoreInit /\ CycleIdle /\ ScrapeIdle /\ ExtractIdle /\ NormalizeIdle
StoreNext ==
    \/ StoreSaveJob
    \/ StoreMarkSent
    \/ StoreMarkExported
    \/ StoreRecordSession
    \/ StoreTick
SpecStore == StoreSpecInit /\ [][StoreNext]_vars

\* ------------------------------------------------------------------ scraper
\* What one job element turns into: job_element.get_attribute('outerHTML') and
\* parse_job_element_from_html give a job_data, or the element is lost (the
\* attribute read raises and the re-found list is too short or raises again).
Parsed(job_data) == [kind |-> "parsed", job |-> job_data]
Lost == [kind |-> "raises", job |-> JobData(None, None, "t1")]
Listings ==
    {Lost, Parsed(JobData(None, Some(<<"X">>), "t1")), Parsed(JobData(Some(<< >>), None, "t1"))}
        \cup {Parsed(JobData(Some(<<"a">>), c, "t1")) : c \in {None, Some(<< >>), Some(<<"X">>)}}
        \cup {Parsed(JobData(Some(<<"b">>), Some(<<"X">>), "t1"))}
\* the known-keys sets a session is started with
KnownSets == {{}, {JobKey(<<"a">>, None)}, {JobKey(<<"a">>, Some(<<"X">>))}}

StopHere_IdOnly(job_data, existing, stop_on_known) ==
    stop_on_known /\ JobKey(job_data.id[1], None) \in existing
StopHere_IgnoreFlag(job_data, existing, stop_on_known) ==
    JobKey(job_data.id[1], job_data.client_name) \in existing
\* scrape_page: STOP_ON_KNOWN_JOB and job_key in existing_job_ids
StopHere(job_data, existing, stop_on_known) ==
    stop_on_known /\ JobKey(job_data.id[1], job_data.client_name) \in existing

ClampPages_Unclamped(total, maxp) == total
\* scrape: if max_pages: total_pages = min(total_pages, max_pages)
ClampPages(total, maxp) == IF maxp # 0 /\ maxp < total THEN maxp ELSE total

\* scrape(): load the first page; on failure return all_jobs, else read the pagination
ScrapeLoadFirst ==
    /\ spc = "start"
    /\ \E ok \in BOOLEAN :
        /\ loads' = Append(loads, [page |-> 1, ok |-> ok])
        /\ IF ok
           THEN \E n \in 1..MaxTotalPages :
                   /\ pagination' = n
                   /\ total_pages' = ClampPages(n, max_pages)
                   /\ spc' = IF 1 <= ClampPages(n, max_pages) THEN "page" ELSE "done"
           ELSE /\ spc' = "done"
                /\ UNCHANGED <<pagination, total_pages>>
    /\ UNCHANGED <<STOP_ON_KNOWN_JOB, known, max_pages, page, elems, elemIdx, jobsOfPage,
                   all_jobs, should_stop, processed, delays>>

\* scrape_page(): jobs = [], should_stop = False, job_elements = get_job_elements()
ScrapePageStart ==
    /\ spc = "page"
    /\ \E n \in 0..(MaxListings - Len(processed)) :
        /\ elems' = n
        /\ spc' = IF n = 0 THEN "after" ELSE "listing"
    /\ elemIdx' = 1
    /\ jobsOfPage' = << >>
    /\ should_stop' = FALSE
    /\ UNCHANGED <<STOP_ON_KNOWN_JOB, known, max_pages, pagination, total_pages, page,
                   all_jobs, processed, loads, delays>>

ScrapeListing_RaiseEndsSession ==
    /\ spc = "listing"
    /\ \E e \in Listings :
        /\ processed' = Append(processed, [page |-> page, kind |-> e.kind, job |-> e.job])
        /\ IF e.kind = "raises"
           THEN /\ UNCHANGED <<jobsOfPage, should_stop>>
                /\ spc' = "done"
           ELSE IF ~Truthy(e.job.id)
           THEN /\ UNCHANGED <<jobsOfPage, should_stop>>
                /\ spc' = IF elemIdx = elems THEN "after" ELSE "listing"
           ELSE IF StopHere(e.job, known, STOP_ON_KNOWN_JOB)
           THEN /\ should_stop' = TRUE
                /\ UNCHANGED jobsOfPage
                /\ spc' = "after"
           ELSE /\ jobsOfPage' = Append(jobsOfPage, e.job)
                /\ UNCHANGED should_stop
                /\ spc' = IF elemIdx = elems THEN "after" ELSE "listing"
    /\ elemIdx' = elemIdx + 1
    /\ UNCHANGED <<STOP_ON_KNOWN_JOB, known, max_pages, pagination, total_pages, page,
                   elems, all_jobs, loads, delays>>
ScrapeListing_KeepsNoId ==
    /\ spc = "listing"
    /\ \E e \in Listings :
        /\ processed' = Append(processed, [page |-> page, kind |-> e.kind, job |-> e.job])
        /\ IF e.kind = "raises"
           THEN /\ UNCHANGED <<jobsOfPage, should_stop>>
                /\ spc' = IF elemIdx = elems THEN "after" ELSE "listing"
           ELSE IF Truthy(e.job.id) /\ StopHere(e.job, known, STOP_ON_KNOWN_JOB)
           THEN /\ should_stop' = TRUE
                /\ UNCHANGED jobsOfPage
                /\ spc' = "after"
           ELSE /\ jobsOfPage' = Append(jobsOfPage, e.job)
                /\ UNCHANGED should_stop
                /\ spc' = IF elemIdx = elems THEN "after" ELSE "listing"
    /\ elemIdx' = elemIdx + 1
    /\ UNCHANGED <<STOP_ON_KNOWN_JOB, known, max_pages, pagination, total_pages, page,
                   elems, all_jobs, loads, delays>>
\* scrape_page(): one turn of the loop over job_elements
ScrapeListing ==
    /\ spc = "listing"
    /\ \E e \in Listings :
        /\ processed' = Append(processed, [page |-> page, kind |-> e.kind, job |-> e.job])
        /\ IF e.kind = "raises" \/ ~Truthy(e.job.id)
           THEN \* except ...: continue / if not job_data.get('id'): continue
                /\ UNCHANGED <<jobsOfPage, should_stop>>
                /\ spc' = IF elemIdx = elems THEN "after" ELSE "listing"
           ELSE IF StopHere(e.job, known, STOP_ON_KNOWN_JOB)
           THEN \* should_stop = True; break
                /\ should_stop' = TRUE
                /\ UNCHANGED jobsOfPage
                /\ spc' = "after"
           ELSE /\ jobsOfPage' = Append(jobsOfPage, e.job)
                /\ UNCHANGED should_stop
                /\ spc' = IF elemIdx = elems THEN "after" ELSE "listing"
    /\ elemIdx' = elemIdx + 1
    /\ UNCHANGED <<STOP_ON_KNOWN_JOB, known, max_pages, pagination, total_pages, page,
                   elems, all_jobs, loads, delays>>

\* scrape(): return all_jobs  -- the values the call hands back, in order
ScrapeReturn == <<all_jobs>>

ScrapeAfterPage_Prepends ==
    /\ spc = "after"
    /\ all_jobs' = jobsOfPage \o all_jobs
    /\ jobsOfPage' = << >>
    /\ IF should_stop
       THEN spc' = "done" /\ UNCHANGED page
       ELSE /\ page' = page + 1
            /\ spc' = IF page + 1 > total_pages THEN "done" ELSE "delay"
    /\ UNCHANGED <<STOP_ON_KNOWN_JOB, known, max_pages, pagination, total_pages, elems,
                   elemIdx, should_stop, processed, loads, delays>>
\* scrape(): all_jobs.extend(jobs), then stop, or move to the next page
ScrapeAfterPage ==
    /\ spc = "after"
    /\ all_jobs' = all_jobs \o jobsOfPage
    /\ jobsOfPage' = << >>
    /\ IF should_stop
       THEN spc' = "done" /\ UNCHANGED page
       ELSE /\ page' = page + 1
            /\ spc' = IF page + 1 > total_pages THEN "done" ELSE "delay"
    /\ UNCHANGED <<STOP_ON_KNOWN_JOB, known, max_pages, pagination, total_pages, elems,
                   elemIdx, should_stop, processed, loads, delays>>

ScrapeDelay_NoSleep ==
    /\ spc = "delay"
    /\ spc' = "load"
    /\ UNCHANGED <<STOP_ON_KNOWN_JOB, known, max_pages, pagination, total_pages, page,
                   elems, elemIdx, jobsOfPage, all_jobs, should_stop, processed, loads, delays>>
\* scrape(): time.sleep(delay)
ScrapeDelay ==
    /\ spc = "delay"
    /\ delays' = Append(delays, page)
    /\ spc' = "load"
    /\ UNCHANGED <<STOP_ON_KNOWN_JOB, known, max_pages, pagination, total_pages, page,
                   elems, elemIdx, jobsOfPage, all_jobs, should_stop, processed, loads>>

ScrapeLoadNext_GoesOn ==
    /\ spc = "load"
    /\ \E ok \in BOOLEAN :
        /\ loads' = Append(loads, [page |-> page, ok |-> ok])
        /\ spc' = "page"
    /\ UNCHANGED <<STOP_ON_KNOWN_JOB, known, max_pages, pagination, total_pages, page,
                   elems, elemIdx, jobsOfPage, all_jobs, should_stop, processed, delays>>
\* scrape(): load the next page; on failure break
ScrapeLoadNext ==
    /\ spc = "load"
    /\ \E ok \in BOOLEAN :
        /\ loads' = Append(loads, [page |-> page, ok |-> ok])
        /\ spc' = IF ok THEN "page" ELSE "done"
    /\ UNCHANGED <<STOP_ON_KNOWN_JOB, known, max_pages, pagination, total_pages, page,
                   elems, elemIdx, jobsOfPage, all_jobs, should_stop, processed, delays>>

\* scrape() is called: all_jobs = [], page = 1
ScrapeInit ==
    /\ spc = "start"
    /\ STOP_ON_KNOWN_JOB \in BOOLEAN
    /\ known \in KnownSets
    /\ max_pages \in 0..MaxTotalPages
    /\ pagination = 0
    /\ total_pages = 0
    /\ page = 1
    /\ elems = 0
    /\ elemIdx = 0
    /\ jobsOfPage = << >>
    /\ all_jobs = << >>
    /\ should_stop = FALSE
    /\ processed = << >>
    /\ loads = << >>
    /\ delays = << >>

ScrapeSpecInit == StoreInit /\ CycleIdle /\ ScrapeInit /\ ExtractIdle /\ NormalizeIdle
ScrapeNext ==
    \/ ScrapeLoadFirst /\ UNCHANGED <<storeVars, cycleVars, extractVars, normVars>>
    \/ ScrapePageStart /\ UNCHANGED <<storeVars, cycleVars, extractVars, normVars>>
    \/ ScrapeListing /\ UNCHANGED <<storeVars, cycleVars, extractVars, normVars>>
    \/ ScrapeAfterPage /\ UNCHANGED <<storeVars, cycleVars, extractVars, normVars>>
    \/ ScrapeDelay /\ UNCHANGED <<storeVars, cycleVars, extractVars, normVars>>
    \/ ScrapeLoadNext /\ UNCHANGED <<storeVars, cycleVars, extractVars, normVars>>
SpecScrape == ScrapeSpecInit /\ [][ScrapeNext]_vars

\* ------------------------------------------------------------------ crawl cycle
\* the records scrape() can return to run_scrape: id-bearing, and with
\* STOP_ON_KNOWN_JOB none whose key is in existing_job_ids
CycleJobs ==
    {JobData(Some(<<"a">>), c, "t1") : c \in {None, Some(<<"X">>)}}
        \cup {JobData(Some(<<"b">>), None, "t1")}
RECURSIVE SeqsUpTo(_, _)
SeqsUpTo(S, n) ==
    IF n = 0 THEN {<< >>}
    ELSE SeqsUpTo(S, n - 1) \cup
         {Append(q, x) : q \in {q2 \in SeqsUpTo(S, n - 1) : Len(q2) = n - 1}, x \in S}
ScrapeResults(existing, stop_on_known) ==
    {q \in SeqsUpTo(CycleJobs, MaxScraped) :
        \A k \in 1..Len(q) : ~StopHere(q[k], existing, stop_on_known)}

NewJobsAfterSave_Always(new, job, is_new) == Append(new, job)
\* run_scrape: if is_new: new_jobs.append(job)
NewJobsAfterSave(new, job, is_new) == IF is_new THEN Append(new, job) ELSE new

NotSent(job) == ~IsJobSentToSlack(jobs, job.id[1])
NotExported(job) == ~IsJobExportedToSheets(jobs, job.id[1])
\* run_scrape: the jobs of new_jobs with an id that is_job_sent_to_slack finds unsent
UnsentJobs(new) == SelectSeq(new, LAMBDA job : Truthy(job.id) /\ NotSent(job))
\* run_scrape: the jobs of new_jobs that is_job_exported_to_sheets finds unexported
UnexportedJobs(new) == SelectSeq(new, LAMBDA job : Truthy(job.id) /\ NotExported(job))

\* run_scrape's locals before the cycle's first assignment
CycleLocalsReset ==
    /\ existing_job_ids' = {}
    /\ scraped_jobs' = << >>
    /\ new_jobs' = << >>
    /\ updated_jobs' = 0
    /\ unsent_jobs' = << >>
    /\ unexported_jobs' = << >>
    /\ exported_count' = 0
    /\ idx' = 0
    /\ success' = FALSE

\* run_scrape: existing_job_ids = db.get_existing_job_ids(); scraped_jobs = scraper.scrape(...)
CycleStart ==
    /\ pc = "idle"
    /\ Len(scrape_history) < MaxHistory
    /\ existing_job_ids' = GetExistingJobIds(jobs)
    /\ scraped_jobs' \in ScrapeResults(GetExistingJobIds(jobs), STOP_ON_KNOWN_JOB)
    /\ new_jobs' = << >>
    /\ updated_jobs' = 0
    /\ idx' = 1
    /\ pc' = "save"
    /\ UNCHANGED <<storeVars, slack_notifier, sheets_exporter, unsent_jobs, unexported_jobs,
                   exported_count, success, slackLog, sheetRows>>

\* run_scrape: one turn of  for job in scraped_jobs  (or the loop's end)
CycleSave ==
    /\ pc = "save"
    /\ IF idx > Len(scraped_jobs)
       THEN /\ pc' = "slack"
            /\ UNCHANGED <<storeVars, new_jobs, updated_jobs, idx>>
       ELSE LET job == scraped_jobs[idx] IN
            /\ IF ~Truthy(job.id)
               THEN UNCHANGED <<storeVars, new_jobs, updated_jobs>>
               ELSE /\ DoSaveJob(job)
                    /\ new_jobs' = NewJobsAfterSave(new_jobs, job, SaveJobIsNew(jobs, job))
                    /\ updated_jobs' =
                          IF SaveJobIsNew(jobs, job) THEN updated_jobs ELSE updated_jobs + 1
            /\ idx' = idx + 1
            /\ pc' = "save"
    /\ UNCHANGED <<slack_notifier, sheets_exporter, existing_job_ids, scraped_jobs,
                   unsent_jobs, unexported_jobs, exported_count, success, slackLog, sheetRows>>

\* run_scrape: the Slack branch, and the filter on is_job_sent_to_slack
CycleSlackFilter ==
    /\ pc = "slack"
    /\ IF ~slack_notifier \/ new_jobs = << >>
       THEN pc' = "history" /\ UNCHANGED <<unsent_jobs, idx>>
       ELSE /\ unsent_jobs' = UnsentJobs(new_jobs)
            /\ idx' = 1
            /\ pc' = IF UnsentJobs(new_jobs) = << >> THEN "history" ELSE "send"
    /\ UNCHANGED <<storeVars, slack_notifier, sheets_exporter, existing_job_ids, scraped_jobs,
                   new_jobs, updated_jobs, unexported_jobs, exported_count, success,
                   slackLog, sheetRows>>

\* run_scrape: success = slack_notifier.send_single_job(job)
CycleSend ==
    /\ pc = "send"
    /\ \E ok \in BOOLEAN :
        /\ success' = ok
        /\ slackLog' = [slackLog EXCEPT ![unsent_jobs[idx].id[1]] =
              IF Len(@) < 2
              THEN Append(@, [ok |-> ok,
                              flagged |-> IsJobSentToSlack(jobs, unsent_jobs[idx].id[1])])
              ELSE @]
    /\ pc' = "mark"
    /\ UNCHANGED <<storeVars, slack_notifier, sheets_exporter, existing_job_ids, scraped_jobs,
                   new_jobs, updated_jobs, unsent_jobs, unexported_jobs, exported_count, idx,
                   sheetRows>>

CycleMark_Always ==
    /\ pc = "mark"
    /\ DoMarkSent(unsent_jobs[idx].id[1])
    /\ success' = FALSE
    /\ idx' = idx + 1
    /\ pc' = IF idx < Len(unsent_jobs) THEN "send" ELSE "history"
    /\ UNCHANGED <<slack_notifier, sheets_exporter, existing_job_ids, scraped_jobs, new_jobs,
                   updated_jobs, unsent_jobs, unexported_jobs, exported_count, slackLog,
                   sheetRows>>
\* run_scrape: if success and job_id: db.mark_job_sent_to_slack(job_id); next job
CycleMark ==
    /\ pc = "mark"
    /\ IF success /\ Truthy(unsent_jobs[idx].id)
       THEN DoMarkSent(unsent_jobs[idx].id[1])
       ELSE UNCHANGED storeVars
    /\ success' = FALSE
    /\ idx' = idx + 1
    /\ pc' = IF idx < Len(unsent_jobs) THEN "send" ELSE "history"
    /\ UNCHANGED <<slack_notifier, sheets_exporter, existing_job_ids, scraped_jobs, new_jobs,
                   updated_jobs, unsent_jobs, unexported_jobs, exported_count, slackLog,
                   sheetRows>>

CycleHistory_CountsFound ==
    /\ pc = "history"
    /\ DoSaveScrapeHistory(Len(scraped_jobs), Len(scraped_jobs),
                           Len(scraped_jobs) \div JobsPerPage)
    /\ pc' = "sheets"
    /\ UNCHANGED <<slack_notifier, sheets_exporter, existing_job_ids, scraped_jobs, new_jobs,
                   updated_jobs, unsent_jobs, unexported_jobs, exported_count, idx, success,
                   slackLog, sheetRows>>
\* run_scrape: pages_scraped = len(scraped_jobs) // 20; db.save_scrape_history(...)
CycleHistory ==
    /\ pc = "history"
    /\ DoSaveScrapeHistory(Len(scraped_jobs), Len(new_jobs),
                           Len(scraped_jobs) \div JobsPerPage)
    /\ pc' = "sheets"
    /\ UNCHANGED <<slack_notifier, sheets_exporter, existing_job_ids, scraped_jobs, new_jobs,
                   updated_jobs, unsent_jobs, unexported_jobs, exported_count, idx, success,
                   slackLog, sheetRows>>

\* run_scrape: the Sheets branch, ensure_today_sheet_exists() and the filter on
\* is_job_exported_to_sheets
CycleSheetsFilter ==
    /\ pc = "sheets"
    /\ IF ~sheets_exporter \/ new_jobs = << >>
       THEN pc' = "stats" /\ UNCHANGED <<unexported_jobs, idx>>
       ELSE /\ unexported_jobs' = UnexportedJobs(new_jobs)
            /\ idx' = 1
            /\ pc' = IF UnexportedJobs(new_jobs) = << >> THEN "stats" ELSE "export"
    /\ UNCHANGED <<storeVars, slack_notifier, sheets_exporter, existing_job_ids, scraped_jobs,
                   new_jobs, updated_jobs, unsent_jobs, exported_count, success, slackLog,
                   sheetRows>>

\* the ids of the first n jobs of a list
IdsOfFirst(q, n) == [k \in 1..n |-> q[k].id[1]]

\* export_jobs(unexported_jobs): append_rows adds actual_added rows, which the code
\* compares with len(rows) only to print a warning; it returns len(rows)
CycleExport ==
    /\ pc = "export"
    /\ \E actual_added \in 0..Len(unexported_jobs) :
          sheetRows' = sheetRows \o IdsOfFirst(unexported_jobs, actual_added)
    /\ exported_count' = Len(unexported_jobs)
    /\ idx' = 1
    /\ pc' = IF Len(unexported_jobs) = 0 THEN "stats" ELSE "xmark"
    /\ UNCHANGED <<storeVars, slack_notifier, sheets_exporter, existing_job_ids, scraped_jobs,
                   new_jobs, updated_jobs, unsent_jobs, unexported_jobs, success, slackLog>>

\* run_scrape: one turn of  for job in unexported_jobs[:exported_count]
CycleMarkExported ==
    /\ pc = "xmark"
    /\ IF Truthy(unexported_jobs[idx].id)
       THEN DoMarkExported(unexported_jobs[idx].id[1])
       ELSE UNCHANGED storeVars
    /\ idx' = idx + 1
    /\ pc' = IF idx < exported_count /\ idx < Len(unexported_jobs) THEN "xmark" ELSE "stats"
    /\ UNCHANGED <<slack_notifier, sheets_exporter, existing_job_ids, scraped_jobs, new_jobs,
                   updated_jobs, unsent_jobs, unexported_jobs, exported_count, success,
                   slackLog, sheetRows>>

\* run_scrape: except ConnectionError / except Exception inside the Sheets branch
\* (ensure_today_sheet_exists, export_jobs or a store call raised)
CycleSheetsError ==
    /\ pc \in {"export", "xmark"}
    /\ pc' = "stats"
    /\ UNCHANGED <<storeVars, slack_notifier, sheets_exporter, existing_job_ids, scraped_jobs,
                   new_jobs, updated_jobs, unsent_jobs, unexported_jobs, exported_count, idx,
                   success, slackLog, sheetRows>>

\* run_scrape: db.get_statistics(); return True; main() sleeps until the next run
CycleStats ==
    /\ pc = "stats"
    /\ pc' = "idle"
    /\ CycleLocalsReset
    /\ UNCHANGED <<storeVars, slack_notifier, sheets_exporter, slackLog, sheetRows>>

CycleAbort_EndsLoop ==
    /\ pc \in {"save", "slack", "send", "mark", "history", "stats"}
    /\ pc' = "ended"
    /\ CycleLocalsReset
    /\ UNCHANGED <<storeVars, slack_notifier, sheets_exporter, slackLog, sheetRows>>
\* run_scrape: except Exception (a store call or the notifier raised): return False
CycleAbort ==
    /\ pc \in {"save", "slack", "send", "mark", "history", "stats"}
    /\ pc' = "idle"
    /\ CycleLocalsReset
    /\ UNCHANGED <<storeVars, slack_notifier, sheets_exporter, slackLog, sheetRows>>

\* the process is stopped at any point and main() is started again: the database
\* file and the outside world are as they were, the locals are gone
Restart ==
    /\ pc # "idle"
    /\ pc' = "idle"
    /\ CycleLocalsReset
    /\ UNCHANGED <<storeVars, slack_notifier, sheets_exporter, slackLog, sheetRows>>

\* main(): the collaborators are set up from the settings, then the loop starts
CycleInit ==
    /\ pc = "idle"
    /\ slack_notifier \in BOOLEAN
    /\ sheets_exporter \in BOOLEAN
    /\ existing_job_ids = {}
    /\ scraped_jobs = << >>
    /\ new_jobs = << >>
    /\ updated_jobs = 0
    /\ unsent_jobs = << >>
    /\ unexported_jobs = << >>
    /\ exported_count = 0
    /\ idx = 0
    /\ success = FALSE
    /\ slackLog = [i \in Ids |-> << >>]
    /\ sheetRows = << >>

\* the scraper's variables while run_scrape treats scrape() as one call
ScrapeAsCall ==
    /\ spc = "off"
    /\ STOP_ON_KNOWN_JOB \in BOOLEAN
    /\ known = {}
    /\ max_pages = 0
    /\ pagination = 0
    /\ total_pages = 0
    /\ page = 0
    /\ elems = 0
    /\ elemIdx = 0
    /\ jobsOfPage = << >>
    /\ all_jobs = << >>
    /\ should_stop = FALSE
    /\ processed = << >>
    /\ loads = << >>
    /\ delays = << >>

CycleSpecInit == StoreInit /\ CycleInit /\ ScrapeAsCall /\ ExtractIdle /\ NormalizeIdle
CycleNext ==
    \/ CycleStart /\ UNCHANGED <<scrapeVars, extractVars, normVars>>
    \/ CycleSave /\ UNCHANGED <<scrapeVars, extractVars, normVars>>
    \/ CycleSlackFilter /\ UNCHANGED <<scrapeVars, extractVars, normVars>>
    \/ CycleSend /\ UNCHANGED <<scrapeVars, extractVars, normVars>>
    \/ CycleMark /\ UNCHANGED <<scrapeVars, extractVars, normVars>>
    \/ CycleHistory /\ UNCHANGED <<scrapeVars, extractVars, normVars>>
    \/ CycleSheetsFilter /\ UNCHANGED <<scrapeVars, extractVars, normVars>>
    \/ CycleExport /\ UNCHANGED <<scrapeVars, extractVars, normVars>>
    \/ CycleMarkExported /\ UNCHANGED <<scrapeVars, extractVars, normVars>>
    \/ CycleSheetsError /\ UNCHANGED <<scrapeVars, extractVars, normVars>>
    \/ CycleStats /\ UNCHANGED <<scrapeVars, extractVars, normVars>>
    \/ CycleAbort /\ UNCHANGED <<scrapeVars, extractVars, normVars>>
    \/ Restart /\ UNCHANGED <<scrapeVars, extractVars, normVars>>
\* run_scrape reads no timestamp: the cycle is explored at one reading of the clock
SpecCycle == CycleSpecInit /\ [][CycleNext]_vars

\* ------------------------------------------------------------------ session and caller
\* run_scrape up to the end of its save loop, with scrape() taken step by step:
\* run_scrape has read the known keys and calls scraper.scrape(..., existing_job_ids)
SessionStoreInit ==
    /\ jobs \in {{}, SaveJobTable({}, JobData(Some(<<"a">>), Some(<<"X">>), "t1"), 0)}
    /\ scrape_history = << >>
    /\ clock = 0
    /\ ret = Call("none", << >>, FALSE)
    /\ markSentLog = [i \in Ids |-> << >>]
    /\ upserted = {}
SessionCallerInit ==
    /\ pc = "scrape"
    /\ slack_notifier = FALSE
    /\ sheets_exporter = FALSE
    /\ existing_job_ids = GetExistingJobIds(jobs)
    /\ scraped_jobs = << >>
    /\ new_jobs = << >>
    /\ updated_jobs = 0
    /\ unsent_jobs = << >>
    /\ unexported_jobs = << >>
    /\ exported_count = 0
    /\ idx = 0
    /\ success = FALSE
    /\ slackLog = [i \in Ids |-> << >>]
    /\ sheetRows = << >>
SessionScrapeInit ==
    /\ spc = "start"
    /\ STOP_ON_KNOWN_JOB \in BOOLEAN
    /\ known = GetExistingJobIds(jobs)
    /\ max_pages = 0
    /\ pagination = 0
    /\ total_pages = 0
    /\ page = 1
    /\ elems = 0
    /\ elemIdx = 0
    /\ jobsOfPage = << >>
    /\ all_jobs = << >>
    /\ should_stop = FALSE
    /\ processed = << >>
    /\ loads = << >>
    /\ delays = << >>

\* run_scrape: scraped_jobs = the list scrape() returns; the save loop starts
SessionReturn ==
    /\ pc = "scrape"
    /\ spc = "done"
    /\ scraped_jobs' = ScrapeReturn[1]
    /\ new_jobs' = << >>
    /\ updated_jobs' = 0
    /\ idx' = 1
    /\ pc' = "save"
    /\ spc' = "returned"
    /\ UNCHANGED <<storeVars, slack_notifier, sheets_exporter, existing_job_ids, unsent_jobs,
                   unexported_jobs, exported_count, success, slackLog, sheetRows>>
    /\ UNCHANGED <<STOP_ON_KNOWN_JOB, known, max_pages, pagination, total_pages, page, elems,
                   elemIdx, jobsOfPage, all_jobs, should_stop, processed, loads, delays>>

SessionSpecInit ==
    SessionStoreInit /\ SessionCallerInit /\ SessionScrapeInit /\ ExtractIdle /\ NormalizeIdle
SessionNext ==
    \/ ScrapeLoadFirst /\ UNCHANGED <<storeVars, cycleVars, extractVars, normVars>>
    \/ ScrapePageStart /\ UNCHANGED <<storeVars, cycleVars, extractVars, normVars>>
    \/ ScrapeListing /\ UNCHANGED <<storeVars, cycleVars, extractVars, normVars>>
    \/ ScrapeAfterPage /\ UNCHANGED <<storeVars, cycleVars, extractVars, normVars>>
    \/ ScrapeDelay /\ UNCHANGED <<storeVars, cycleVars, extractVars, normVars>>
    \/ ScrapeLoadNext /\ UNCHANGED <<storeVars, cycleVars, extractVars, normVars>>
    \/ SessionReturn /\ UNCHANGED <<extractVars, normVars>>
    \/ CycleSave /\ UNCHANGED <<scrapeVars, extractVars, normVars>>
SpecSession == SessionSpecInit /\ [][SessionNext]_vars

\* ------------------------------------------------------------------ extractor
MaxAnchors == 2      \* country anchors in one listing's client section

\* the text nodes the anchors are given
Texts == {<< >>, <<" ">>, <<"B", "R">>, <<" ", "A", "R">>}
\* where an anchor sits inside div.project-author: under span.country > span.country-name,
\* under a span.country-name that is no child of span.country, or right under span.country
Places == {"country>country-name", "country-name", "country"}
Anchors == [under : Places, text : Texts]
\* what soup.select_one('div.project-author') gives: None, or the section with its
\* anchors in document order
Sections == {None} \cup {Some(q) : q \in SeqsUpTo(Anchors, MaxAnchors)}

RECURSIVE StripLeft(_)
StripLeft(t) == IF t # << >> /\ Head(t) = " " THEN StripLeft(Tail(t)) ELSE t
RECURSIVE StripRight(_)
StripRight(t) ==
    IF t # << >> /\ t[Len(t)] = " " THEN StripRight(SubSeq(t, 1, Len(t) - 1)) ELSE t
\* elem.get_text(strip=True)
GetText(elem) == StripRight(StripLeft(elem.text))

\* the selectors tried for client_country, in the order the code tries them
CountrySelectors == <<"client_country", "span.country-name > a", "span.country > a">>
\* the anchor matches the CSS selector
SelectorMatches(sel, elem) ==
    CASE sel = "client_country" -> elem.under = "country>country-name"
      [] sel = "span.country-name > a" -> elem.under \in {"country>country-name", "country-name"}
      [] sel = "span.country > a" -> elem.under = "country"
\* client_section.select_one(sel): the first match in document order, or None
SelectOne(anchors, sel) ==
    LET hits == {k \in 1..Len(anchors) : SelectorMatches(sel, anchors[k])}
    IN  IF hits = {} THEN None
        ELSE Some(anchors[CHOOSE k \in hits : \A m \in hits : k <= m])

\* parse_job_element_from_html: job_data['client_country']
ClientCountry(section) ==
    IF section = None THEN None
    ELSE LET primary == SelectOne(section[1], CountrySelectors[1])
             fallback1 == SelectOne(section[1], CountrySelectors[2])
             fallback2 == SelectOne(section[1], CountrySelectors[3])
         IN  IF primary # None THEN Some(GetText(primary[1]))
             ELSE IF fallback1 # None THEN Some(GetText(fallback1[1]))
             ELSE IF fallback2 # None THEN Some(GetText(fallback2[1]))
             ELSE None

\* parse_job_element_from_html(html): the client information block
ExtractClientCountry ==
    /\ xpc = "markup"
    /\ client_country' = ClientCountry(client_section)
    /\ xpc' = "parsed"
    /\ UNCHANGED <<client_section, title_elem, date_elem, budget_elem, job_dict>>

ExtractInit ==
    /\ xpc = "markup"
    /\ client_section \in Sections
    /\ client_country = None
    /\ title_elem = None
    /\ date_elem = None
    /\ budget_elem = None
    /\ job_dict = << >>

ExtractSpecInit == StoreInit /\ CycleIdle /\ ScrapeIdle /\ ExtractInit /\ NormalizeIdle
ExtractNext ==
    ExtractClientCountry /\ UNCHANGED <<storeVars, cycleVars, scrapeVars, normVars>>
SpecExtract == ExtractSpecInit /\ [][ExtractNext]_vars

\* ------------------------------------------------------------------ text
\* the whitespace str.strip() and the regular expressions' \s take off
IsSpace(c) == c \in {" ", "\t", "\n", "\r"}
RECURSIVE LStrip(_)
LStrip(s) == IF s # << >> /\ IsSpace(Head(s)) THEN LStrip(Tail(s)) ELSE s
RECURSIVE RStrip(_)
RStrip(s) == IF s # << >> /\ IsSpace(s[Len(s)]) THEN RStrip(SubSeq(s, 1, Len(s) - 1)) ELSE s
\* s.strip()
Strip(s) == RStrip(LStrip(s))

UpperCase == <<"A", "B", "C", "D", "E", "F", "G", "H", "I", "J", "K", "L", "M", "N", "O", "P", "Q", "R", "S", "T", "U", "V", "W", "X", "Y", "Z">>
LowerCase == <<"a", "b", "c", "d", "e", "f", "g", "h", "i", "j", "k", "l", "m", "n", "o", "p", "q", "r", "s", "t", "u", "v", "w", "x", "y", "z">>
\* s.lower()
Lower(s) ==
    [k \in 1..Len(s) |->
        IF \E u \in 1..Len(UpperCase) : UpperCase[u] = s[k]
        THEN LowerCase[CHOOSE u \in 1..Len(UpperCase) : UpperCase[u] = s[k]]
        ELSE s[k]]

\* s[n:]
Drop(s, n) == SubSeq(s, n + 1, Len(s))
\* s.startswith(p)
StartsWith(s, p) == Len(p) <= Len(s) /\ SubSeq(s, 1, Len(p)) = p
\* p in s
Contains(s, p) == \E i \in 0..(Len(s) - Len(p)) : StartsWith(Drop(s, i), p)
\* s.replace(c, '') for one character c
RemoveChar(s, c) == SelectSeq(s, LAMBDA x : x # c)
\* s.replace(p, '')
RECURSIVE Remove(_, _)
Remove(s, p) ==
    IF s = << >> THEN << >>
    ELSE IF StartsWith(s, p) THEN Remove(Drop(s, Len(p)), p)
    ELSE <<Head(s)>> \o Remove(Tail(s), p)
\* s.split(c) for one character c
RECURSIVE SplitOn(_, _)
SplitOn(s, c) ==
    IF \A k \in 1..Len(s) : s[k] # c THEN <<s>>
    ELSE LET k == CHOOSE k \in 1..Len(s) : s[k] = c /\ \A m \in 1..(k - 1) : s[m] # c
         IN  <<SubSeq(s, 1, k - 1)>> \o SplitOn(Drop(s, k), c)

Digits == <<"0", "1", "2", "3", "4", "5", "6", "7", "8", "9">>
\* \d
IsDigit(c) == \E v \in 1..Len(Digits) : Digits[v] = c
DigitValue(c) == (CHOOSE v \in 1..Len(Digits) : Digits[v] = c) - 1
\* int(ds) of a run of digits
RECURSIVE ToInt(_)
ToInt(ds) ==
    IF ds = << >> THEN 0 ELSE 10 * ToInt(SubSeq(ds, 1, Len(ds) - 1)) + DigitValue(ds[Len(ds)])
\* the digits s begins with: what a greedy \d+ takes at the head of s
RECURSIVE LeadingDigits(_)
LeadingDigits(s) ==
    IF s # << >> /\ IsDigit(Head(s)) THEN <<Head(s)>> \o LeadingDigits(Tail(s)) ELSE << >>
\* re.findall(r'\d+', s) as integers, in order of appearance
RECURSIVE DigitRuns(_)
DigitRuns(s) ==
    IF s = << >> THEN << >>
    ELSE IF IsDigit(Head(s))
         THEN <<ToInt(LeadingDigits(s))>> \o DigitRuns(Drop(s, Len(LeadingDigits(s))))
         ELSE DigitRuns(Tail(s))

\* ------------------------------------------------------------------ normalizers
\* what a call ends with: the value it returns, or an exception
Returns(v) == [raised |-> FALSE, value |-> v]
Raises == [raised |-> TRUE, value |-> None]

\* A datetime is [days, seconds]: the proleptic Gregorian ordinal of its date
\* (0001-01-01 is day 1, datetime.min) and the second of its day.
\* dt - timedelta(days=d, seconds=s) for 0 <= s < 86400: OverflowError below datetime.min
Minus(dt, d, s) ==
    LET borrow == IF dt.seconds < s THEN 1 ELSE 0
        days == dt.days - d - borrow
    IN  IF days < 1 THEN Raises
        ELSE Returns(Some([days |-> days, seconds |-> dt.seconds - s + 86400 * borrow]))

\* after a number the text goes on with \s*(?:unit|unit)s?\s*ago
AgoTail(t, units) ==
    \E u \in units, s \in {<< >>, <<"s">>} :
        /\ StartsWith(LStrip(t), u \o s)
        /\ StartsWith(LStrip(Drop(LStrip(t), Len(u) + Len(s))), <<"a", "g", "o">>)
\* re.search(r'(\d+)\s*(?:unit|unit)s?\s*ago', s): int(match.group(1)) of the leftmost
\* match, or None.  A match starts at the head of a run of digits and takes the whole run.
SearchAgo(s, units) ==
    LET after(i) == Drop(s, i - 1 + Len(LeadingDigits(Drop(s, i - 1))))
        hits == {i \in 1..Len(s) :
                    /\ IsDigit(s[i])
                    /\ (i = 1 \/ ~IsDigit(s[i - 1]))
                    /\ AgoTail(after(i), units)}
    IN  IF hits = {} THEN None
        ELSE Some(ToInt(LeadingDigits(Drop(s, (CHOOSE i \in hits : \A j \in hits : i <= j) - 1))))

\* re.sub(r'^published:\s*', '', s)
RemovePublished(s) ==
    IF StartsWith(s, <<"p", "u", "b", "l", "i", "s", "h", "e", "d", ":">>)
    THEN LStrip(Drop(s, Len(<<"p", "u", "b", "l", "i", "s", "h", "e", "d", ":">>)))
    ELSE s

MonthNames ==
    <<<<"j", "a", "n", "u", "a", "r", "y">>, <<"f", "e", "b", "r", "u", "a", "r", "y">>,
     <<"m", "a", "r", "c", "h">>, <<"a", "p", "r", "i", "l">>, <<"m", "a", "y">>,
     <<"j", "u", "n", "e">>, <<"j", "u", "l", "y">>, <<"a", "u", "g", "u", "s", "t">>,
     <<"s", "e", "p", "t", "e", "m", "b", "e", "r">>, <<"o", "c", "t", "o", "b", "e", "r">>,
     <<"n", "o", "v", "e", "m", "b", "e", "r">>, <<"d", "e", "c", "e", "m", "b", "e", "r">>>>
IsLeap(y) == y % 4 = 0 /\ (y % 100 # 0 \/ y % 400 = 0)
DaysInMonth(y, m) ==
    IF m = 2 THEN (IF IsLeap(y) THEN 29 ELSE 28)
    ELSE IF m \in {4, 6, 9, 11} THEN 30 ELSE 31
RECURSIVE DaysBeforeMonth(_, _)
DaysBeforeMonth(y, m) ==
    IF m = 1 THEN 0 ELSE DaysBeforeMonth(y, m - 1) + DaysInMonth(y, m - 1)
\* date(y, m, d).toordinal()
Ordinal(y, m, d) ==
    365 * (y - 1) + (y - 1) \div 4 - (y - 1) \div 100 + (y - 1) \div 400 + DaysBeforeMonth(y, m) + d
\* strptime's fields: the value of the field, or None when the text is no such field
YearField(f) ==               \* %Y: four digits
    IF Len(f) = 4 /\ \A k \in 1..4 : IsDigit(f[k]) THEN Some(ToInt(f)) ELSE None
NumberField(f, max) ==        \* one or two digits, from 1 to max
    IF Len(f) \in {1, 2} /\ (\A k \in 1..Len(f) : IsDigit(f[k])) /\ ToInt(f) \in 1..max
    THEN Some(ToInt(f)) ELSE None
MonthField(f) == NumberField(f, 12)     \* %m
DayField(f) ==                          \* %d, which also takes a space and one digit
    IF Len(f) = 2 /\ f[1] = " " THEN NumberField(Tail(f), 9) ELSE NumberField(f, 31)
\* datetime(y, m, d) of the fields: ValueError (None) for a field that did not match,
\* the year 0 or a day the month does not have
DateOf(y, m, d) ==
    IF y = None \/ m = None \/ d = None THEN None
    ELSE IF y[1] < 1 \/ d[1] > DaysInMonth(y[1], m[1]) THEN None
    ELSE Some([days |-> Ordinal(y[1], m[1], d[1]), seconds |-> 0])
DateFormats == <<"%Y-%m-%d", "%m/%d/%Y", "%d/%m/%Y", "%B %d, %Y">>
\* datetime.strptime(text, fmt), None for its ValueError
Strptime(text, fmt) ==
    CASE fmt = "%Y-%m-%d" ->
            LET f == SplitOn(text, "-")
            IN  IF Len(f) # 3 THEN None
                ELSE DateOf(YearField(f[1]), MonthField(f[2]), DayField(f[3]))
      [] fmt = "%m/%d/%Y" ->
            LET f == SplitOn(text, "/")
            IN  IF Len(f) # 3 THEN None
                ELSE DateOf(YearField(f[3]), MonthField(f[1]), DayField(f[2]))
      [] fmt = "%d/%m/%Y" ->
            LET f == SplitOn(text, "/")
            IN  IF Len(f) # 3 THEN None
                ELSE DateOf(YearField(f[3]), MonthField(f[2]), DayField(f[1]))
      [] fmt = "%B %d, %Y" ->
            LET named == {k \in 1..Len(MonthNames) : StartsWith(text, MonthNames[k])}
                k == CHOOSE k \in named : TRUE
                rest == Drop(text, Len(MonthNames[k]))
                f == SplitOn(LStrip(rest), ",")
            IN  IF named = {} THEN None
                ELSE IF rest = << >> \/ ~IsSpace(rest[1]) \/ Len(f) # 2 THEN None
                ELSE IF f[2] = << >> \/ ~IsSpace(f[2][1]) THEN None
                ELSE DateOf(YearField(LStrip(f[2])), Some(k), DayField(f[1]))
\* the loop over the formats: the first that parses, else None
RECURSIVE FirstFormat(_, _)
FirstFormat(text, k) ==
    IF k > Len(DateFormats) THEN None
    ELSE IF Strptime(text, DateFormats[k]) # None THEN Strptime(text, DateFormats[k])
    ELSE FirstFormat(text, k + 1)

\* parse_relative_date(date_text) when datetime.now() reads now
ParseRelativeDate(s, at) ==
    IF ~Truthy(s) THEN Returns(None)
    ELSE LET text == RemovePublished(Lower(Strip(s[1])))
             minutes == SearchAgo(text, {<<"m", "i", "n", "u", "t", "e">>, <<"m", "i", "n">>})
             hours == SearchAgo(text, {<<"h", "o", "u", "r">>, <<"h", "r">>})
             days == SearchAgo(text, {<<"d", "a", "y">>, <<"d">>})
             weeks == SearchAgo(text, {<<"w", "e", "e", "k">>, <<"w">>})
             months == SearchAgo(text, {<<"m", "o", "n", "t", "h">>, <<"m", "o">>})
         IN  IF Contains(text, <<"j", "u", "s", "t", " ", "n", "o", "w">>) \/ text = <<"n", "o", "w">>
             THEN Minus(at, 0, 30)
             ELSE IF minutes # None
             THEN Minus(at, minutes[1] \div 1440, (minutes[1] % 1440) * 60)
             ELSE IF hours # None
             THEN Minus(at, hours[1] \div 24, (hours[1] % 24) * 3600)
             ELSE IF \/ Contains(text, <<"a", "l", "m", "o", "s", "t", " ", "a", "n", " ", "h", "o", "u", "r", " ", "a", "g", "o">>)
                     \/ Contains(text, <<"a", "l", "m", "o", "s", "t", " ", "1", " ", "h", "o", "u", "r", " ", "a", "g", "o">>)
             THEN Minus(at, 0, 5400)
             ELSE IF days # None THEN Minus(at, days[1], 0)
             ELSE IF Contains(text, <<"y", "e", "s", "t", "e", "r", "d", "a", "y">>) THEN Minus(at, 1, 43200)
             ELSE IF weeks # None THEN Minus(at, 7 * weeks[1], 0)
             ELSE IF months # None THEN Minus(at, 30 * months[1], 0)
             ELSE Returns(FirstFormat(text, 1))

\* parse_budget taking a range before it looks for a bound word
ParseBudget_RangeFirst(s) ==
    IF ~Truthy(s) THEN [min |-> None, max |-> None, type |-> None]
    ELSE LET text == Strip(s[1])
             low == Lower(text)
             budget_type ==
                 IF Contains(low, <<"/", " ", "h", "o", "u", "r">>) \/ Contains(low, <<"h", "o", "u", "r", "l", "y">>)
                 THEN "hourly" ELSE "fixed"
             numbers == DigitRuns(RemoveChar(text, ","))
         IN  IF Len(numbers) >= 2
             THEN [min |-> Some(numbers[1]), max |-> Some(numbers[2]), type |-> Some(budget_type)]
             ELSE IF Contains(low, <<"o", "v", "e", "r">>) \/ Contains(low, <<"m", "o", "r", "e", " ", "t", "h", "a", "n">>)
             THEN [min |-> IF numbers # << >> THEN Some(numbers[1]) ELSE None,
                   max |-> None, type |-> Some(budget_type)]
             ELSE IF Contains(low, <<"l", "e", "s", "s", " ", "t", "h", "a", "n">>) \/ Contains(low, <<"u", "n", "d", "e", "r">>)
             THEN [min |-> None,
                   max |-> IF numbers # << >> THEN Some(numbers[1]) ELSE None,
                   type |-> Some(budget_type)]
             ELSE IF Len(numbers) = 1
             THEN [min |-> Some(numbers[1]), max |-> None, type |-> Some(budget_type)]
             ELSE [min |-> None, max |-> None, type |-> Some(budget_type)]
\* parse_budget(budget_text): {'min', 'max', 'type'}
ParseBudget(s) ==
    IF ~Truthy(s) THEN [min |-> None, max |-> None, type |-> None]
    ELSE LET text == Strip(s[1])
             low == Lower(text)
             budget_type ==
                 IF Contains(low, <<"/", " ", "h", "o", "u", "r">>) \/ Contains(low, <<"h", "o", "u", "r", "l", "y">>)
                 THEN "hourly" ELSE "fixed"
             numbers == DigitRuns(RemoveChar(text, ","))
         IN  IF Contains(low, <<"o", "v", "e", "r">>) \/ Contains(low, <<"m", "o", "r", "e", " ", "t", "h", "a", "n">>)
             THEN [min |-> IF numbers # << >> THEN Some(numbers[1]) ELSE None,
                   max |-> None, type |-> Some(budget_type)]
             ELSE IF Contains(low, <<"l", "e", "s", "s", " ", "t", "h", "a", "n">>) \/ Contains(low, <<"u", "n", "d", "e", "r">>)
             THEN [min |-> None,
                   max |-> IF numbers # << >> THEN Some(numbers[1]) ELSE None,
                   type |-> Some(budget_type)]
             ELSE IF Len(numbers) >= 2
             THEN [min |-> Some(numbers[1]), max |-> Some(numbers[2]), type |-> Some(budget_type)]
             ELSE IF Len(numbers) = 1
             THEN [min |-> Some(numbers[1]), max |-> None, type |-> Some(budget_type)]
             ELSE [min |-> None, max |-> None, type |-> Some(budget_type)]

\* ---- the normalizers on the texts a listing can show
\* what the date element reads: an optional "Published:" label, then the date
DateLabels ==
    {<< >>, <<"P", "u", "b", "l", "i", "s", "h", "e", "d", ":", " ">>,
     <<"P", "U", "B", "L", "I", "S", "H", "E", "D", ":">>}
DateCores ==
    {<<"a", "l", "m", "o", "s", "t", " ", "a", "n", " ", "h", "o", "u", "r", " ", "a", "g", "o">>,
     <<"A", "l", "m", "o", "s", "t", " ", "1", " ", "h", "o", "u", "r", " ", "a", "g", "o">>,
     <<"a", "l", "m", "o", "s", "t", " ", "1", " ", "h", "o", "u", "r", " ", "a", "g", "o">>,
     <<"A", "l", "m", "o", "s", "t", " ", "A", "n", " ", "H", "o", "u", "r", " ", "A", "g", "o">>,
     <<"3", " ", "h", "o", "u", "r", "s", " ", "a", "g", "o">>,
     <<"1", " ", "h", "r", " ", "a", "g", "o">>,
     <<"5", " ", "m", "i", "n", "u", "t", "e", "s", " ", "a", "g", "o">>,
     <<"2", "0", " ", "m", "i", "n", "s", " ", "a", "g", "o">>,
     <<"J", "u", "s", "t", " ", "n", "o", "w">>, <<"n", "o", "w">>,
     <<"Y", "e", "s", "t", "e", "r", "d", "a", "y">>,
     <<"2", " ", "d", "a", "y", "s", " ", "a", "g", "o">>,
     <<"1", " ", "w", "e", "e", "k", " ", "a", "g", "o">>,
     <<"2", " ", "m", "o", "n", "t", "h", "s", " ", "a", "g", "o">>,
     <<"9", "9", "9", "9", "9", "9", "9", " ", "d", "a", "y", "s", " ", "a", "g", "o">>,
     <<"s", "o", "o", "n">>, << >>, <<"2", "0", "2", "4", "-", "0", "2", "-", "2", "9">>,
     <<"0", "2", "/", "2", "8", "/", "2", "0", "2", "4">>,
     <<"2", "8", "/", "0", "2", "/", "2", "0", "2", "4">>,
     <<"f", "e", "b", "r", "u", "a", "r", "y", " ", "2", "8", ",", " ", "2", "0", "2", "4">>,
     <<"2", "0", "2", "3", "-", "0", "2", "-", "2", "9">>}
DateTexts == {label \o core : label \in DateLabels, core \in DateCores}
\* datetime.now(): 2026-11-05 at 11:40:00 and at 00:00:10
Nows == {[days |-> 739925, seconds |-> 42000], [days |-> 739925, seconds |-> 10]}
\* what the budget element reads: a bound word, the amounts, the rate
BudgetHeads ==
    {<< >>, <<"O", "v", "e", "r", " ">>, <<"M", "o", "r", "e", " ", "t", "h", "a", "n", " ">>,
     <<"L", "e", "s", "s", " ", "t", "h", "a", "n", " ">>, <<"U", "n", "d", "e", "r", " ">>,
     <<"O", "V", "E", "R", " ">>}
BudgetBodies ==
    {<<"U", "S", "D", " ", "5", "0">>,
     <<"U", "S", "D", " ", "5", "0", " ", "-", " ", "1", "0", "0">>,
     <<"U", "S", "D", " ", "1", ",", "0", "0", "0", " ", "-", " ", "2", ",", "5", "0", "0">>,
     <<"U", "S", "D">>, <<"U", "S", "D", " ", "4", "5", ".", "5", "0">>,
     <<"B", "u", "d", "g", "e", "t">>}
BudgetTails ==
    {<< >>, <<" ", "/", " ", "h", "o", "u", "r">>, <<" ", "H", "o", "u", "r", "l", "y">>,
     <<"/", "h", "o", "u", "r">>}
BudgetTexts ==
    {head \o body \o tail : head \in BudgetHeads, body \in BudgetBodies, tail \in BudgetTails}
        \cup {<< >>, <<" ">>}

NormalizeDate ==
    /\ npc = "parse_relative_date"
    /\ normalized' = ParseRelativeDate(date_text, datetime_now)
    /\ npc' = "parse_relative_date returned"
    /\ UNCHANGED <<date_text, budget_text, datetime_now>>
NormalizeBudget ==
    /\ npc = "parse_budget"
    /\ normalized' = Returns(ParseBudget(budget_text))
    /\ npc' = "parse_budget returned"
    /\ UNCHANGED <<date_text, budget_text, datetime_now>>

NormalizeInit ==
    /\ npc \in {"parse_relative_date", "parse_budget"}
    /\ datetime_now \in Nows
    /\ IF npc = "parse_relative_date"
       THEN date_text \in {None} \cup {Some(t) : t \in DateTexts}
       ELSE date_text = None
    /\ IF npc = "parse_budget"
       THEN budget_text \in {None} \cup {Some(t) : t \in BudgetTexts}
       ELSE budget_text = None
    /\ normalized = Returns(None)

NormalizeSpecInit == StoreInit /\ CycleIdle /\ ScrapeIdle /\ ExtractIdle /\ NormalizeInit
NormalizeNext ==
    \/ NormalizeDate /\ UNCHANGED <<storeVars, cycleVars, scrapeVars, extractVars>>
    \/ NormalizeBudget /\ UNCHANGED <<storeVars, cycleVars, scrapeVars, extractVars>>
SpecNormalize == NormalizeSpecInit /\ [][NormalizeNext]_vars

\* ------------------------------------------------------------------ listing parser
\* s up to its first '/' or '?': what ([^/?]+) takes at the head of s
RECURSIVE Segment(_)
Segment(s) ==
    IF s = << >> \/ Head(s) \in {"/", "?"} THEN << >> ELSE <<Head(s)>> \o Segment(Tail(s))
\* s.strip('/')
RECURSIVE StripSlashes(_)
StripSlashes(s) ==
    IF s # << >> /\ Head(s) = "/" THEN StripSlashes(Tail(s))
    ELSE IF s # << >> /\ s[Len(s)] = "/" THEN StripSlashes(SubSeq(s, 1, Len(s) - 1))
    ELSE s
\* extract_job_id_from_url(url)
ExtractJobIdFromUrl(url) ==
    IF url = << >> THEN << >>
    ELSE LET u == Remove(Remove(url, <<"h", "t", "t", "p", "s", ":", "/", "/", "w", "w", "w", ".", "w", "o", "r", "k", "a", "n", "a", ".", "c", "o", "m">>),
                         <<"h", "t", "t", "p", ":", "/", "/", "w", "w", "w", ".", "w", "o", "r", "k", "a", "n", "a", ".", "c", "o", "m">>)
             hits == {i \in 1..Len(u) :
                         /\ StartsWith(Drop(u, i - 1), <<"/", "j", "o", "b", "/">>)
                         /\ Segment(Drop(u, i + 4)) # << >>}
             parts == SplitOn(StripSlashes(u), "/")
         IN  IF hits # {}
             THEN Segment(Drop(u, (CHOOSE i \in hits : \A j \in hits : i <= j) + 4))
             ELSE SplitOn(parts[Len(parts)], "?")[1]

BaseUrl == <<"h", "t", "t", "p", "s", ":", "/", "/", "w", "w", "w", ".", "w", "o", "r", "k", "a", "n", "a", ".", "c", "o", "m">>
\* job_data after the title block
TitleFields(title) ==
    IF title = None THEN [title |-> None, url |-> None, id |-> None]
    ELSE LET url_path == title[1].href
             url == IF StartsWith(url_path, <<"h", "t", "t", "p">>) THEN url_path ELSE BaseUrl \o url_path
         IN  IF url_path # << >>
             THEN [title |-> Some(Strip(title[1].text)), url |-> Some(url),
                   id |-> Some(ExtractJobIdFromUrl(url))]
             ELSE [title |-> Some(Strip(title[1].text)), url |-> None, id |-> None]
\* job_data['posted_date_relative']
PostedDateRelative(date) ==
    IF date = None \/ Strip(date[1]) = << >> THEN None
    ELSE Some(Strip(Remove(Strip(date[1]), <<"P", "u", "b", "l", "i", "s", "h", "e", "d", ":", " ">>)))
\* how the right-hand side of job_data['posted_date_timestamp'] ends
PostedDateTimestamp(date, at) ==
    IF Truthy(PostedDateRelative(date)) THEN ParseRelativeDate(PostedDateRelative(date), at)
    ELSE Returns(None)
\* job_data after the bids and description blocks, for a listing that has neither element
BidsFields == [bids_count |-> None, description |-> None]
\* job_data after the budget block
BudgetFields(budget) ==
    IF budget = None
    THEN [budget |-> None, budget_min |-> None, budget_max |-> None, budget_type |-> None]
    ELSE LET budget_parsed == ParseBudget(Some(Strip(budget[1])))
         IN  [budget |-> Some(Strip(budget[1])), budget_min |-> budget_parsed.min,
              budget_max |-> budget_parsed.max, budget_type |-> budget_parsed.type]
\* job_data after the skills and badge blocks, for a listing with no skill and no badge
SkillFields == [skills |-> << >>, is_max_project |-> FALSE, is_featured |-> FALSE]
\* job_data after the client block, for a section with no name, rating, payment or reply
\* element
ClientFields(section) ==
    [client_name |-> None, client_country |-> ClientCountry(section), client_rating |-> None,
     client_payment_verified |-> FALSE, client_last_reply |-> None]

\* parse_job_element_from_html(html): the blocks in the order of the code, inside one
\* try whose handler prints the error; what was assigned before an exception stays
ParseJobElementFromHtml(title, date, budget, section, at) ==
    IF PostedDateTimestamp(date, at).raised
    THEN TitleFields(title) @@ [posted_date_relative |-> PostedDateRelative(date)]
    ELSE TitleFields(title)
            @@ [posted_date_relative |-> PostedDateRelative(date),
                posted_date_timestamp |-> PostedDateTimestamp(date, at).value]
            @@ BidsFields @@ BudgetFields(budget) @@ SkillFields @@ ClientFields(section)

\* ---- the parser on one listing
TitleElems ==
    {None} \cup
    {Some([text |-> <<" ", "T", " ">>, href |-> h]) : h \in
        {<< >>, <<"/", "j", "o", "b", "/", "a">>,
         <<"h", "t", "t", "p", "s", ":", "/", "/", "w", "w", "w", ".", "w", "o", "r", "k", "a", "n", "a", ".", "c", "o", "m", "/", "j", "o", "b", "/", "b", "?", "r", "e", "f", "=", "1">>,
         <<"/", "j", "o", "b", "s", "/">>}}
DateElems ==
    {None} \cup
    {Some(text) : text \in
        {<< >>,
         <<" ", "P", "u", "b", "l", "i", "s", "h", "e", "d", ":", " ", "3", " ", "h", "o", "u", "r", "s", " ", "a", "g", "o">>,
         <<"P", "u", "b", "l", "i", "s", "h", "e", "d", ":", " ", "9", "9", "9", "9", "9", "9", "9", " ", "d", "a", "y", "s", " ", "a", "g", "o">>,
         <<"P", "u", "b", "l", "i", "s", "h", "e", "d", ":", " ">>}}
BudgetElems ==
    {None} \cup
    {Some(text) : text \in
        {<< >>, <<"U", "S", "D", " ", "5", "0", " ", "-", " ", "1", "0", "0">>,
         <<" ", "O", "v", "e", "r", " ", "U", "S", "D", " ", "4", "5", " ", "/", " ", "h", "o", "u", "r", " ">>}}
\* the client section: None, or the section with at most one country anchor
ListingSections == {None} \cup {Some(q) : q \in SeqsUpTo(Anchors, 1)}

ExtractListing ==
    /\ xpc = "markup"
    /\ job_dict' = ParseJobElementFromHtml(title_elem, date_elem, budget_elem, client_section,
                                           datetime_now)
    /\ xpc' = "returned"
    /\ UNCHANGED <<client_section, client_country, title_elem, date_elem, budget_elem>>

ParseInit ==
    /\ xpc = "markup"
    /\ title_elem \in TitleElems
    /\ date_elem \in DateElems
    /\ budget_elem \in BudgetElems
    /\ client_section \in ListingSections
    /\ client_country = None
    /\ job_dict = << >>
ParseClock ==
    /\ npc = "off"
    /\ date_text = None
    /\ budget_text = None
    /\ datetime_now \in Nows
    /\ normalized = Returns(None)

ParseSpecInit == StoreInit /\ CycleIdle /\ ScrapeIdle /\ ParseInit /\ ParseClock
ParseNext ==
    ExtractListing
        /\ UNCHANGED <<storeVars, cycleVars, scrapeVars, normVars>>
SpecParse == ParseSpecInit /\ [][ParseNext]_vars

\* ------------------------------------------------------------------ store claims
\* the step is the store call op(i) (no store call moves the clock)
StoreCall(op, i) == ret'.op = op /\ ret'.id = i /\ clock' = clock
Others(tbl, i) == {r \in tbl : r.id # i}

\* per id: at most one call returned True, and slack_sent_at is what that call wrote
MarkSentOnceState ==
    \A i \in Ids :
        /\ Len(markSentLog[i]) <= 1
        /\ Len(markSentLog[i]) = 1 <=> IsJobSentToSlack(jobs, i)
        /\ Len(markSentLog[i]) = 1 => SentAt(jobs, i) = markSentLog[i][1]
\* a call returns True iff the record is stored and no call returned True before
MarkSentOnceStep ==
    \A i \in Ids :
        StoreCall("mark_sent", i) =>
            /\ ret'.val <=> (RowsOf(jobs, i) # {} /\ markSentLog[i] = << >>)
            /\ markSentLog[i] # << >> => SentAt(jobs', i) = SentAt(jobs, i)
\* C1: for every id, mark_job_sent_to_slack returns True exactly once: on the first
\* call that finds the record stored; every later call returns False and slack_sent_at
\* keeps the value that call gave it, whatever the store is called with in between.
C1_MarkSentOnce == []MarkSentOnceState /\ [][MarkSentOnceStep]_vars
\* a second call, at a later time than the first, has returned False
C1_Witness ==
    /\ ret = Call("mark_sent", <<"a">>, FALSE)
    /\ markSentLog[<<"a">>] = <<Some(0)>>
    /\ clock = 1

\* C2: no step turns sent_to_slack or exported_to_sheets of any record from 1 to 0.
C2_FlagsMonotone ==
    [][\A i \in Ids :
          /\ IsJobSentToSlack(jobs, i) => IsJobSentToSlack(jobs', i)
          /\ IsJobExportedToSheets(jobs, i) => IsJobExportedToSheets(jobs', i)]_vars
\* a record with both flags set has been upserted again, and a session recorded
C2_Witness ==
    /\ ret = Call("save_job", <<"a">>, FALSE)
    /\ IsJobSentToSlack(jobs, <<"a">>)
    /\ IsJobExportedToSheets(jobs, <<"a">>)
    /\ Row(jobs, <<"a">>).last_seen_at > Row(jobs, <<"a">>).slack_sent_at[1]
    /\ scrape_history # << >>

\* C4: save_job on a stored id changes, of that record, only the mutable business
\* fields (title), last_seen_at and scraped_at, which become now; first_seen_at,
\* client_name, both flags and their timestamps stay, and so does every other record.
C4_UpsertFrame ==
    [][\A i \in Ids :
          (StoreCall("save_job", i) /\ RowsOf(jobs, i) # {}) =>
              LET old == Row(jobs, i)
                  new == Row(jobs', i)
              IN  /\ RowsOf(jobs', i) = {new}
                  /\ new = [old EXCEPT !.title = new.title,
                                       !.last_seen_at = clock, !.scraped_at = clock]
                  /\ Others(jobs', i) = Others(jobs, i)
                  /\ scrape_history' = scrape_history]_vars
\* a sent and exported record, with another record stored, has been upserted later
C4_Witness ==
    /\ ret = Call("save_job", <<"a">>, FALSE)
    /\ RowsOf(jobs, <<"b">>) # {}
    /\ \E r \in jobs : /\ r.id = <<"a">>
                       /\ r.first_seen_at = 0 /\ r.last_seen_at = 1
                       /\ r.sent_to_slack = 1 /\ r.exported_to_sheets = 1
                       /\ r.client_name = Some(<<"X">>) /\ r.title = "t2"

\* C5: every stored record has first_seen_at <= last_seen_at <= scraped_at.
C5_TimestampOrder ==
    \A r \in jobs : r.first_seen_at <= r.last_seen_at /\ r.last_seen_at <= r.scraped_at
\* a record seen again after the clock advanced, and marked
C5_Witness ==
    \E r \in jobs : r.first_seen_at < r.last_seen_at /\ r.sent_to_slack = 1

\* C6: save_job returns True iff no record with that id was stored; the record it
\* then inserts has first_seen_at = last_seen_at = scraped_at = now, both flags 0 and
\* no slack_sent_at/sheets_exported_at; job_exists(id) is True after every save_job.
C6_UpsertIsNew ==
    [][\A i \in Ids :
          StoreCall("save_job", i) =>
              /\ ret'.val <=> RowsOf(jobs, i) = {}
              /\ JobExists(jobs', i)
              /\ ret'.val =>
                    \E r \in jobs' :
                        /\ RowsOf(jobs', i) = {r}
                        /\ r.first_seen_at = clock /\ r.last_seen_at = clock
                        /\ r.scraped_at = clock
                        /\ r.sent_to_slack = 0 /\ r.slack_sent_at = None
                        /\ r.exported_to_sheets = 0 /\ r.sheets_exported_at = None
                        /\ ~IsJobSentToSlack(jobs', i)
                        /\ ~IsJobExportedToSheets(jobs', i)]_vars
\* a record was inserted at time 1 next to an older, already marked record
C6_Witness ==
    /\ ret = Call("save_job", <<"b">>, TRUE)
    /\ clock = 1
    /\ IsJobSentToSlack(jobs, <<"a">>)
    /\ \E r \in jobs : r.id = <<"b">> /\ r.first_seen_at = 1

ExportedPart(tbl) == {<<r.id, r.exported_to_sheets, r.sheets_exported_at>> : r \in tbl}
SentPart(tbl) == {<<r.id, r.sent_to_slack, r.slack_sent_at>> : r \in tbl}
\* C7: mark_job_sent_to_slack leaves exported_to_sheets/sheets_exported_at of every
\* record alone and returns True iff the record is stored with sent_to_slack = 0;
\* mark_job_exported_to_sheets likewise with the two flags exchanged.
C7_MarksIndependent ==
    [][\A i \in Ids :
          /\ StoreCall("mark_sent", i) =>
                /\ ExportedPart(jobs') = ExportedPart(jobs)
                /\ ret'.val <=> \E r \in jobs : r.id = i /\ r.sent_to_slack = 0
          /\ StoreCall("mark_exported", i) =>
                /\ SentPart(jobs') = SentPart(jobs)
                /\ ret'.val <=> \E r \in jobs : r.id = i /\ r.exported_to_sheets = 0]_vars
\* a record was marked sent after it had been marked exported at an earlier time
C7_Witness ==
    /\ ret = Call("mark_sent", <<"a">>, TRUE)
    /\ \E r \in jobs : /\ r.id = <<"a">>
                       /\ r.sheets_exported_at = Some(0)
                       /\ r.slack_sent_at = Some(1)

\* C8: mark_job_sent_to_slack and mark_job_exported_to_sheets on an id with no record
\* return False and leave both tables as they are (no record appears); afterwards
\* is_job_sent_to_slack and is_job_exported_to_sheets return False for that id.
C8_MarkAbsent ==
    [][\A i \in Ids :
          ((StoreCall("mark_sent", i) \/ StoreCall("mark_exported", i))
              /\ RowsOf(jobs, i) = {}) =>
              /\ ret'.val = FALSE
              /\ jobs' = jobs
              /\ scrape_history' = scrape_history
              /\ ~IsJobSentToSlack(jobs', i)
              /\ ~IsJobExportedToSheets(jobs', i)]_vars
\* mark_job_sent_to_slack was called for an id that is not stored, the store not empty
C8_Witness ==
    /\ ret = Call("mark_sent", <<"b">>, FALSE)
    /\ RowsOf(jobs, <<"b">>) = {}
    /\ RowsOf(jobs, <<"a">>) # {}

\* C9: every id save_job was ever called with is stored, in exactly one row, and the
\* table holds no other row.
C9_IdsOnlyGrow ==
    /\ \A i \in upserted : Cardinality(RowsOf(jobs, i)) = 1
    /\ \A r \in jobs : r.id \in upserted
\* both ids stored, one of them upserted twice and marked
C9_Witness ==
    /\ upserted = Ids
    /\ \E r \in jobs : r.first_seen_at < r.last_seen_at /\ r.exported_to_sheets = 1

\* the step is db.save_job(job)
SavesJob(job) ==
    /\ jobs' = SaveJobTable(jobs, job, clock)
    /\ ret' = Call("save_job", job.id[1], SaveJobIsNew(jobs, job))
    /\ upserted' = upserted \cup {job.id[1]}
\* C29: after save_job returns, get_existing_job_ids contains the record's composite key
\* id|client_name, also when the id was already stored under another client_name, so
\* that the next cycle's stop policy knows the listing.
C29_KeyKnownAfterSave ==
    [][\A job \in StoreJobs :
          SavesJob(job) => JobKey(job.id[1], job.client_name) \in GetExistingJobIds(jobs')]_vars

\* ------------------------------------------------------------------ scraper claims
\* the element was extracted with a non-empty id
IdBearing(e) == e.kind = "parsed" /\ Truthy(e.job.id)
\* ... and its composite key id|client_name is in the known-keys set
KnownListing(e) == IdBearing(e) /\ JobKey(e.job.id[1], e.job.client_name) \in known
KnownAt == {k \in 1..Len(processed) : KnownListing(processed[k])}
FirstKnown == CHOOSE k \in KnownAt : \A m \in KnownAt : k <= m
JobsOf(seq) == [k \in 1..Len(seq) |-> seq[k].job]
\* the records collected so far: all_jobs and the running page's jobs
Collected == all_jobs \o jobsOfPage

\* C10: with STOP_ON_KNOWN_JOB set, the records collected are exactly the id-bearing
\* listings met so far, none of them with a known key; once a listing with a known key
\* (the first in page order, then in-page order) is met, no listing is handled after it,
\* no page is loaded after its page, and the session returns the id-bearing listings
\* that precede it.
C10_StopOnKnown ==
    STOP_ON_KNOWN_JOB =>
        /\ \A k \in 1..Len(Collected) :
              JobKey(Collected[k].id[1], Collected[k].client_name) \notin known
        /\ KnownAt = {} => Collected = JobsOf(SelectSeq(processed, IdBearing))
        /\ KnownAt # {} =>
              /\ Len(processed) = FirstKnown
              /\ Collected = JobsOf(SelectSeq(SubSeq(processed, 1, FirstKnown - 1), IdBearing))
              /\ Len(loads) = processed[FirstKnown].page
              /\ should_stop
              /\ spc \in {"after", "done"}
        /\ (spc = "done" /\ KnownAt # {}) =>
              all_jobs = JobsOf(SelectSeq(SubSeq(processed, 1, FirstKnown - 1), IdBearing))
\* a session stopped on page 1 of 2: the known listing came third, after a listing
\* without id and a new one; page 2 was never loaded
C10_Witness ==
    /\ STOP_ON_KNOWN_JOB
    /\ spc = "done"
    /\ KnownAt = {3}
    /\ ~IdBearing(processed[1])
    /\ Len(all_jobs) = 1
    /\ processed[3].page = 1
    /\ total_pages = 2

\* every load_page call so far returned True
AllLoaded == \A k \in 1..Len(loads) : loads[k].ok
\* the job elements of page p handled so far
HandledOn(p) == {k \in 1..Len(processed) : processed[k].page = p}

\* C11: with STOP_ON_KNOWN_JOB off, no listing stops the crawl: every job element of a
\* scraped page is handled and the records collected are all id-bearing listings met,
\* known keys included; a session in which no load failed ends having loaded the pages
\* 1..total_pages (the clamped count) in order and returns all those records.
C11_WalksAllPages ==
    ~STOP_ON_KNOWN_JOB =>
        /\ ~should_stop
        /\ Collected = JobsOf(SelectSeq(processed, IdBearing))
        /\ spc = "after" => Cardinality(HandledOn(page)) = elems
        /\ (spc = "done" /\ AllLoaded) =>
              /\ loads = [k \in 1..total_pages |-> [page |-> k, ok |-> TRUE]]
              /\ all_jobs = JobsOf(SelectSeq(processed, IdBearing))
\* a finished session over two pages that returned a listing with a known key from
\* page 1 and another listing from page 2
C11_Witness ==
    /\ ~STOP_ON_KNOWN_JOB
    /\ spc = "done"
    /\ AllLoaded
    /\ total_pages = 2
    /\ Len(all_jobs) = 2
    /\ KnownListing(processed[1])
    /\ processed[1].page = 1
    /\ processed[Len(processed)].page = 2

\* the composite dedup key as text: id, "|", the client name (empty when absent)
KeyText(i, c) == i \o <<"|">> \o (IF c = None THEN << >> ELSE c[1])
\* an id-bearing listing whose id is known under another client name only
KnownUnderOtherClient(e) ==
    /\ IdBearing(e)
    /\ KeyText(e.job.id[1], e.job.client_name) \notin known
    /\ \E c \in ClientNames : KeyText(e.job.id[1], c) \in known
\* the id-bearing listings among the first k handled
IdBearingUpTo(k) == SelectSeq(SubSeq(processed, 1, k), IdBearing)

\* one id under two client names has two keys
KeysDistinct ==
    \A i \in Ids : \A c1, c2 \in ClientNames :
        OrEmpty(c1) # OrEmpty(c2) => JobKey(i, c1) # JobKey(i, c2)

\* C12: one id under two client names (an absent name counting as the empty one) has
\* two composite keys; a listing whose id is in the known-keys set under another client
\* name only does not stop the crawl and is collected, in its place.
C12_CompositeKey ==
    /\ KeysDistinct
    /\ \A k \in 1..Len(processed) :
          KnownUnderOtherClient(processed[k]) =>
              /\ Len(IdBearingUpTo(k)) <= Len(Collected)
              /\ Collected[Len(IdBearingUpTo(k))] = processed[k].job
              /\ k = Len(processed) => ~should_stop
\* with a|X the only known key, a listing of id a without client name was collected
\* and the crawl went on to the next listing
C12_Witness ==
    /\ STOP_ON_KNOWN_JOB
    /\ known = {<<"a", "|", "X">>}
    /\ Len(processed) >= 2
    /\ processed[1].kind = "parsed"
    /\ processed[1].job = JobData(Some(<<"a">>), None, "t1")
    /\ all_jobs # << >>
    /\ all_jobs[1] = processed[1].job
    /\ spc = "done"

\* C13: the pages a session loads are 1, 2, ... in order, never more of them than the
\* page count read from the pagination control, and never more than max_pages when the
\* caller gave one (max_pages None or 0 is no limit).
C13_PageBudget ==
    /\ \A k \in 1..Len(loads) : loads[k].page = k
    /\ pagination # 0 => Len(loads) <= pagination
    /\ max_pages # 0 => Len(loads) <= max_pages
    /\ spc # "start" => Len(loads) >= 1
\* a session ended by max_pages = 1 although the pagination control showed 2 pages
C13_Witness ==
    /\ spc = "done"
    /\ pagination = 2
    /\ max_pages = 1
    /\ loads = <<[page |-> 1, ok |-> TRUE]>>
    /\ ~should_stop
    /\ all_jobs # << >>

\* the last load_page call returned False
LastLoadFailed == loads # << >> /\ ~loads[Len(loads)].ok

\* C14: when load_page fails for page N the session is over, and what it returns is
\* the id-bearing listings of the pages before N, all of them and nothing else: no
\* record at all when N = 1; no element of page N or later was handled.
C14_LoadFailure ==
    LastLoadFailed =>
        /\ spc = "done"
        /\ jobsOfPage = << >>
        /\ all_jobs = JobsOf(SelectSeq(processed, IdBearing))
        /\ \A k \in 1..Len(processed) : processed[k].page < loads[Len(loads)].page
        /\ \A k \in 1..(Len(loads) - 1) : loads[k].ok
        /\ Len(loads) = 1 => all_jobs = << >>
\* page 2 failed to load after page 1 gave a record
C14_Witness ==
    /\ LastLoadFailed
    /\ Len(loads) = 2
    /\ all_jobs # << >>
    /\ Len(processed) >= 2

\* what ended the session, in the words of the stop reasons
EndedBy ==
    IF LastLoadFailed THEN "load-failure"
    ELSE IF should_stop THEN "hit-known-job"
    ELSE IF total_pages < pagination THEN "page-limit"
    ELSE "exhausted-pages"
\* C15: a finished session hands back, next to its record list, a stop reason that
\* names the condition that ended it.
C15_ExplicitStopReason ==
    spc = "done" => (Len(ScrapeReturn) = 2 /\ ScrapeReturn[2] = EndedBy)

\* the step handles one more job element
Handles == Len(processed') = Len(processed) + 1
\* ... which was extracted without an id (None or '')
HandlesNoId ==
    /\ Handles
    /\ processed'[Len(processed')].kind = "parsed"
    /\ ~Truthy(processed'[Len(processed')].job.id)
\* every record collected has a non-empty id
CollectedHaveId == \A k \in 1..Len(Collected) : Truthy(Collected[k].id)
\* a listing without id leaves the records and should_stop as they are, whatever the
\* known keys, and the loop goes on with the next element or the end of the page
NoIdDroppedStep ==
    HandlesNoId =>
        /\ jobsOfPage' = jobsOfPage
        /\ all_jobs' = all_jobs
        /\ should_stop' = should_stop
        /\ spc' = IF elemIdx = elems THEN "after" ELSE "listing"

\* C16: every record of a session's output has a non-empty id; a listing extracted
\* without id is dropped: handling it changes neither the records collected nor
\* should_stop, with or without STOP_ON_KNOWN_JOB, and the crawl goes on after it.
C16_NoIdDropped == []CollectedHaveId /\ [][NoIdDroppedStep]_vars
\* a session with stop-on-known met a listing without id first, then collected a record
\* on the same page and finished on page 2
C16_Witness ==
    /\ STOP_ON_KNOWN_JOB
    /\ known # {}
    /\ spc = "done"
    /\ Len(processed) >= 2
    /\ processed[1].kind = "parsed"
    /\ processed[1].job.id = None
    /\ processed[2].page = 1
    /\ all_jobs = <<processed[2].job>>
    /\ Len(loads) = 2

\* the step handles a job element whose extraction raised
HandlesRaise == Handles /\ processed'[Len(processed')].kind = "raises"
\* the raise is caught for that element: the records stay, and the loop goes on with
\* the next element or the end of the page
RaiseSkipsOneStep ==
    HandlesRaise =>
        /\ jobsOfPage' = jobsOfPage
        /\ all_jobs' = all_jobs
        /\ should_stop' = should_stop
        /\ spc' = IF elemIdx = elems THEN "after" ELSE "listing"
\* every id-bearing listing handled that did not stop the crawl is collected, in its
\* place, whatever raised before it; nothing collected is ever taken back
ExtractedStay ==
    \A m \in 1..Len(processed) :
        (IdBearing(processed[m]) /\ ~StopHere(processed[m].job, known, STOP_ON_KNOWN_JOB)) =>
            /\ Len(IdBearingUpTo(m)) <= Len(Collected)
            /\ Collected[Len(IdBearingUpTo(m))] = processed[m].job

DelaysBetweenLoads ==
    /\ \A k \in 1..Len(delays) : delays[k] = k + 1
    /\ Len(delays) = IF spc = "load" THEN Len(loads)
                     ELSE IF loads = << >> THEN 0 ELSE Len(loads) - 1
\* a step that sleeps is the step between the end of a page and the load of the next
SleepStep ==
    Len(delays') = Len(delays) + 1 =>
        /\ ~should_stop
        /\ page <= total_pages
        /\ Len(loads) = page - 1
        /\ spc' = "load"
\* C25: the politeness delay is slept exactly once between two consecutive page loads
\* and nowhere else: not before page 1, not after the last page, not after the crawl
\* has decided to stop on a known job.
C25_DelayBetweenLoads == []DelaysBetweenLoads /\ [][SleepStep]_vars
\* a session that slept once, before page 2, and stopped there on a known job
C25_Witness ==
    /\ spc = "done"
    /\ should_stop
    /\ AllLoaded
    /\ Len(loads) = 2
    /\ delays = <<2>>
    /\ Len(processed) >= 2
    /\ processed[Len(processed)].page = 2

\* ------------------------------------------------------------------ session claims
\* the element was extracted with an id and did not stop the crawl
Kept(e) == IdBearing(e) /\ ~StopHere(e.job, known, STOP_ON_KNOWN_JOB)
\* the pages are loaded one after the other and the elements handled page by page
PageByPage ==
    /\ \A k \in 1..Len(loads) : loads[k].page = k
    /\ \A k \in 1..Len(processed) : processed[k].page <= Len(loads)
    /\ \A k, m \in 1..Len(processed) : k <= m => processed[k].page <= processed[m].page
\* the records collected are the kept elements in the order they were handled: page
\* order, then the order of the elements on the page
OutputInOrder == spc # "returned" => Collected = JobsOf(SelectSeq(processed, Kept))
\* the caller holds the same list
CallerSameOrder ==
    pc \in {"save", "slack"} =>
        /\ scraped_jobs = JobsOf(SelectSeq(processed, Kept))
        /\ idx <= Len(scraped_jobs) + 1
        /\ upserted = {scraped_jobs[k].id[1] : k \in 1..(idx - 1)}
        /\ pc = "slack" => idx = Len(scraped_jobs) + 1
\* a later page is loaded when every element of the page before it has been handled
\* and its records have joined all_jobs
LoadsNextStep ==
    (Len(loads') = Len(loads) + 1 /\ loads # << >>) =>
        /\ Cardinality(HandledOn(Len(loads))) = elems
        /\ jobsOfPage = << >>
        /\ ~should_stop
\* the save loop's k-th turn upserts the k-th record of the list
UpsertStep ==
    (pc = "save" /\ pc' = "save") =>
        /\ idx' = idx + 1
        /\ ret'.op = "save_job"
        /\ ret'.id = scraped_jobs[idx].id[1]
        /\ scraped_jobs' = scraped_jobs
\* C24: a session is sequential and keeps the order: page k+1 is loaded only after
\* every listing of page k has been handled, the output holds the records in page
\* order and, within a page, in document order, and the caller upserts them in that
\* same order.
C24_SequentialInOrder ==
    /\ []PageByPage
    /\ []OutputInOrder
    /\ []CallerSameOrder
    /\ [][LoadsNextStep /\ UpsertStep]_vars
\* two records, one from each of two pages, were returned and upserted
C24_Witness ==
    /\ pc = "slack"
    /\ Len(scraped_jobs) = 2
    /\ scraped_jobs[1].id # scraped_jobs[2].id
    /\ Len(loads) = 2
    /\ Len(processed) = 3
    /\ processed[1].page = 1
    /\ Kept(processed[1])
    /\ ~Kept(processed[2])
    /\ processed[3].page = 2
    /\ Cardinality(jobs) >= 2

\* ------------------------------------------------------------------ cycle claims
Delivered(i) == {k \in 1..Len(slackLog[i]) : slackLog[i][k].ok}

\* C3: over any number of cycles, aborted or cut by a restart at any step, each id is
\* delivered by send_single_job at most once, and send_single_job is never called for
\* an id whose sent_to_slack is already 1.
C3_AtMostOnce ==
    \A i \in Ids :
        /\ Cardinality(Delivered(i)) <= 1
        /\ \A k \in 1..Len(slackLog[i]) : ~slackLog[i][k].flagged
\* id a was delivered in a cycle that ended before mark_job_sent_to_slack; a later
\* cycle met a again and has just sent another job
C3_Witness ==
    /\ pc = "mark"
    /\ unsent_jobs = <<JobData(Some(<<"b">>), None, "t1")>>
    /\ \E k \in 1..Len(scraped_jobs) : scraped_jobs[k].id = Some(<<"a">>)
    /\ slackLog[<<"a">>] = <<[ok |-> TRUE, flagged |-> FALSE]>>
    /\ ~IsJobSentToSlack(jobs, <<"a">>)

\* the step is a call of mark_job_sent_to_slack(i) made by run_scrape (between two
\* such calls for one id the cycle calls save_job, so ret changes at every one)
CycleMarkSentCall(i) == ret' # ret /\ ret'.op = "mark_sent" /\ ret'.id = i
\* the last send_single_job call for i reported success
LastSendOk(i) == slackLog[i] # << >> /\ slackLog[i][Len(slackLog[i])].ok
\* a record is flagged sent only if send_single_job reported success for its id
SentOnlyDelivered == \A i \in Ids : IsJobSentToSlack(jobs, i) => Delivered(i) # {}
\* mark_job_sent_to_slack(i) is called right after send_single_job returned True for
\* the job with id i, at the same turn of the same cycle's loop
MarkAfterSendStep ==
    \A i \in Ids :
        CycleMarkSentCall(i) =>
            /\ pc = "mark"
            /\ success
            /\ unsent_jobs[idx].id = Some(i)
            /\ LastSendOk(i)

\* C18: in every crawl cycle mark_job_sent_to_slack(id) is called only after
\* send_single_job returned True for that id in the same cycle; a record with
\* sent_to_slack = 1 has had a successful send_single_job.
C18_MarkAfterDelivery == []SentOnlyDelivered /\ [][MarkAfterSendStep]_vars
\* one cycle delivered and marked id a; the send for id b failed and b stayed unmarked
C18_Witness ==
    /\ pc = "history"
    /\ IsJobSentToSlack(jobs, <<"a">>)
    /\ slackLog[<<"a">>] = <<[ok |-> TRUE, flagged |-> FALSE]>>
    /\ slackLog[<<"b">>] = <<[ok |-> FALSE, flagged |-> FALSE]>>
    /\ JobExists(jobs, <<"b">>)
    /\ ~IsJobSentToSlack(jobs, <<"b">>)

\* the spreadsheet holds a row of the job with id i
RowWritten(i) == \E k \in 1..Len(sheetRows) : sheetRows[k] = i

\* C19: a record with exported_to_sheets = 1 is one whose row the exporter added to the
\* spreadsheet: mark_job_exported_to_sheets is never called for a job whose row
\* append_rows did not add.
C19_MarkOnlyWritten == \A i \in Ids : IsJobExportedToSheets(jobs, i) => RowWritten(i)

\* run_scrape is running
InRunScrape ==
    pc \in {"save", "slack", "send", "mark", "history", "sheets", "export", "xmark", "stats"}
\* between two cycles main() is at the head of its loop, no local of a cycle is alive,
\* and the next run_scrape can be called
LoopGoesOn ==
    ~InRunScrape =>
        /\ pc = "idle"
        /\ scraped_jobs = << >>
        /\ new_jobs = << >>
        /\ idx = 0
        /\ Len(scrape_history) < MaxHistory => ENABLED CycleStart
\* a cycle starts only when none is running, and a cycle that ends, by return True, by
\* return False or with the process, leaves none running
OneAtATimeStep ==
    /\ (existing_job_ids' # existing_job_ids /\ InRunScrape') => ~InRunScrape
    /\ (~InRunScrape /\ InRunScrape') => (pc' = "save" /\ idx' = 1 /\ new_jobs' = << >>)
    /\ (InRunScrape /\ scraped_jobs' # scraped_jobs) => ~InRunScrape'
\* C26: at most one crawl session is active at any time: the next cycle starts only
\* after the previous run_scrape has returned, and a cycle that fails (run_scrape
\* returns False) does not prevent the following cycles.
C26_OneSessionAtATime == []LoopGoesOn /\ [][OneAtATimeStep]_vars
\* a cycle is at the start of its save loop after an earlier one saved a record and
\* ended before it recorded its session
C26_Witness ==
    /\ pc = "save"
    /\ idx = 1
    /\ scraped_jobs # << >>
    /\ jobs # {}
    /\ upserted # {}
    /\ scrape_history = << >>

\* the Sheets branch of the running cycle raised nothing: it was skipped, or export_jobs
\* returned and the loop over the exported jobs ran to its end
SheetsBranchClean ==
    /\ exported_count = Len(unexported_jobs)
    /\ unexported_jobs # << >> => idx = exported_count + 1
\* C27: a record whose export failed, or that a cycle left unexported, is exported by a
\* later cycle once the exporter works: when a cycle ends with the exporter available
\* and its Sheets branch free of errors, no stored record is left unexported.
C27_ExportedLater ==
    (pc = "stats" /\ sheets_exporter /\ SheetsBranchClean)
        => \A r \in jobs : r.exported_to_sheets = 1

\* every send_single_job call so far returned True
NoSendFailed == \A i \in Ids : \A k \in 1..Len(slackLog[i]) : slackLog[i][k].ok
\* C28: a record whose send failed, or that a cycle saved and did not send, is sent by
\* a later cycle once the notifier succeeds: when a cycle is through its Slack branch
\* with the notifier configured and no send has failed, no stored record is left unsent.
C28_SentLater ==
    (pc = "history" /\ slack_notifier /\ NoSendFailed)
        => \A r \in jobs : r.sent_to_slack = 1

\* the records the running cycle has added to the store: the rows there are now less
\* the rows there were when the cycle read the known keys (one key per row)
AddedByCycle == Cardinality(jobs) - Cardinality(existing_job_ids)
\* the cycle has recorded its session
SessionRecorded == pc \in {"sheets", "export", "xmark", "stats"}
\* C30: in every cycle that reaches record_session the recorded new_count is the number
\* of records the cycle added to the store, and an id is reported new at most once in a
\* cycle, also when the session output holds it several times.
C30_NewCountIsAdded ==
    /\ InRunScrape =>
          /\ Len(new_jobs) = AddedByCycle
          /\ \A k, m \in 1..Len(new_jobs) : new_jobs[k].id = new_jobs[m].id => k = m
    /\ SessionRecorded =>
          /\ scrape_history # << >>
          /\ scrape_history[Len(scrape_history)].new_jobs_count = AddedByCycle
\* a cycle whose session output held one id twice recorded one new record
C30_Witness ==
    /\ pc = "sheets"
    /\ Len(scraped_jobs) = 2
    /\ scraped_jobs[1].id = scraped_jobs[2].id
    /\ Len(new_jobs) = 1
    /\ scrape_history # << >>
    /\ scrape_history[Len(scrape_history)].new_jobs_count = 1
    /\ scrape_history[Len(scrape_history)].jobs_found = 2

\* ------------------------------------------------------------------ extractor claims
\* what each selector of the chain yields on the section: the stripped text of its
\* first match, None when it matches nothing
ChainResults(section) ==
    [k \in 1..Len(CountrySelectors) |->
        IF section = None THEN None
        ELSE LET elem == SelectOne(section[1], CountrySelectors[k])
             IN  IF elem = None THEN None ELSE Some(GetText(elem[1]))]
\* the first non-empty result in declared order, None when there is none
FirstNonEmpty(section) ==
    LET results == ChainResults(section)
        good == {k \in 1..Len(results) : Truthy(results[k])}
    IN  IF good = {} THEN None ELSE results[CHOOSE k \in good : \A m \in good : k <= m]

\* C20: client_country is the text of the first selector of the chain, in declared
\* order, that yields a non-empty result (a selector that matches an element with empty
\* text does not end the chain), and None only when every selector fails.
C20_FirstNonEmpty == xpc = "parsed" => client_country = FirstNonEmpty(client_section)

\* ------------------------------------------------------------------ normalizer claims
\* the date reads "almost an hour ago" or "almost 1 hour ago", in any case, with or
\* without the "published:" label
IsAlmostAnHour(text) ==
    RemovePublished(Lower(Strip(text))) \in
        {<<"a", "l", "m", "o", "s", "t", " ", "a", "n", " ", "h", "o", "u", "r", " ", "a", "g", "o">>,
         <<"a", "l", "m", "o", "s", "t", " ", "1", " ", "h", "o", "u", "r", " ", "a", "g", "o">>}

\* C22: parse_relative_date maps "almost an hour ago" and "almost 1 hour ago" (any case,
\* with or without the "published:" label) to now minus 1 hour 30 minutes, and not to
\* what the rule for "N hour(s) ago" gives.
C22_AlmostAnHour ==
    (npc = "parse_relative_date returned" /\ Truthy(date_text) /\ IsAlmostAnHour(date_text[1]))
        => normalized = Minus(datetime_now, 0, 5400)

\* what the text names: the rate, the bound words, the integers it shows
IsHourly(text) == Contains(Lower(text), <<"/", " ", "h", "o", "u", "r">>) \/ Contains(Lower(text), <<"h", "o", "u", "r", "l", "y">>)
SaysOver(text) == Contains(Lower(text), <<"o", "v", "e", "r">>) \/ Contains(Lower(text), <<"m", "o", "r", "e", " ", "t", "h", "a", "n">>)
SaysUnder(text) == Contains(Lower(text), <<"l", "e", "s", "s", " ", "t", "h", "a", "n">>) \/ Contains(Lower(text), <<"u", "n", "d", "e", "r">>)
NumbersOf(text) == DigitRuns(RemoveChar(text, ","))
NumberAt(text, k) == IF Len(NumbersOf(text)) >= k THEN Some(NumbersOf(text)[k]) ELSE None
\* the budget the text stands for: hourly or fixed; a lower bound alone after "over" or
\* "more than", else an upper bound alone after "less than" or "under", else the first
\* number as min and the second as max
BudgetOf(text) ==
    [type |-> Some(IF IsHourly(text) THEN "hourly" ELSE "fixed"),
     min |-> IF SaysUnder(text) /\ ~SaysOver(text) THEN None ELSE NumberAt(text, 1),
     max |-> IF SaysOver(text) THEN None
             ELSE IF SaysUnder(text) THEN NumberAt(text, 1)
             ELSE NumberAt(text, 2)]

\* C23 as stated: for every text parse_budget returns the budget the text stands for,
\* its type hourly or else fixed.
C23_EveryText ==
    (npc = "parse_budget returned" /\ budget_text # None)
        => normalized.value = BudgetOf(budget_text[1])

\* C23: for every text that is not empty parse_budget returns type hourly iff the text
\* contains "/ hour" or "hourly" (else fixed), with "over"/"more than" only min, the first
\* number, else with "less than"/"under" only max, the first number, else min and max the
\* first two numbers, min only for one number, both null for none; for the empty text
\* min, max and type are all null.
C23_NonEmptyText ==
    (npc = "parse_budget returned" /\ budget_text # None)
        => normalized.value =
               IF budget_text[1] = << >> THEN [min |-> None, max |-> None, type |-> None]
               ELSE BudgetOf(budget_text[1])
\* parse_budget has returned for an hourly text that says "over" and shows a range, and
\* for the empty text
C23_Witness ==
    /\ npc = "parse_budget returned"
    /\ budget_text # None
    /\ budget_text[1] # << >>
    /\ SaysOver(budget_text[1])
    /\ IsHourly(budget_text[1])
    /\ Len(NumbersOf(budget_text[1])) >= 2
    /\ normalized.value.max = None

\* ------------------------------------------------------------------ listing parser claims
JobDataKeys ==
    {"title", "url", "id", "posted_date_relative", "posted_date_timestamp", "bids_count",
     "description", "budget", "budget_min", "budget_max", "budget_type", "skills",
     "is_max_project", "is_featured", "client_name", "client_country", "client_rating",
     "client_payment_verified", "client_last_reply"}

\* C21: parse_job_element_from_html never raises and guards each field on its own: a
\* failure while one field is extracted leaves that field null and the fields after it
\* are still extracted, so the returned record carries every field.
C21_EveryField ==
    xpc = "returned" =>
        /\ DOMAIN job_dict = JobDataKeys
        /\ PostedDateTimestamp(date_elem, datetime_now).raised
               => job_dict.posted_date_timestamp = None
        /\ job_dict.budget = BudgetFields(budget_elem).budget
        /\ job_dict.client_country = ClientCountry(client_section)

====
